---- MODULE Spec2Model ----
(***************************************************************************)
(* Model of the llmitm_v2 orchestration cycle: Orchestrator.run with its   *)
(* warm/cold dispatch, the Recon/Critic compile loop, the step loop with   *)
(* failure classification, retry and repair, and the knowledge-graph       *)
(* repository operations the run performs.                                 *)
(***************************************************************************)
EXTENDS Integers, Sequences, FiniteSets, TLC

\* ---------------------------------------------------------------- bounds
\* number of Orchestrator.run invocations explored
MaxRuns == 2
\* number of distinct fingerprint hashes
NumFingerprints == 1
\* longest step list an exploit generator returns
MaxSteps == 2
\* settings.max_critic_iterations
MaxCriticIterations == 2
\* ProgrammaticAgent.max_iterations of the recon agent
ReconMaxIterations == 2
\* _max_token_budget, in abstract token units
MaxTokenBudget == 4
\* largest input+output usage of one model call, in the same units
MaxUsage == 1
\* number of Thread objects POST /run may create
MaxWorkers == 2
\* number of HTTP requests the monitor receives
MaxRequests == 3

Hashes == 1..NumFingerprints

\* ------------------------------------------------------------ data model
\* A text is the set of marks it carries: "x" stands for ordinary
\* characters, the other marks for the phrases classify_failure looks for.
\* The empty string is {}.
EmptyText == {}

StdoutTexts == { {"x"}, {"x", "timeout"} }

StderrTexts == { EmptyText, {"x"}, {"x", "timed out"}, {"x", "forbidden"} }

\* status codes a handler reports; 0 stands for None
StatusCodes == {0, 200, 401, 503}

\* Step(phase, type, success_criteria): success_criteria is TRUE when set
CaptureStep == [phase |-> "CAPTURE", type |-> "http_request", success_criteria |-> FALSE]

ReplayStep == [phase |-> "REPLAY", type |-> "http_request", success_criteria |-> TRUE]

ObserveStep == [phase |-> "OBSERVE", type |-> "http_request", success_criteria |-> TRUE]

PhaseRank(phase) ==
  CASE phase = "CAPTURE" -> 1 [] phase = "ANALYZE" -> 2 [] phase = "MUTATE" -> 3
    [] phase = "REPLAY" -> 4 [] phase = "OBSERVE" -> 5

RECURSIVE SeqsUpTo(_, _)
SeqsUpTo(S, n) ==
  IF n = 0 THEN { <<>> }
  ELSE LET shorter == SeqsUpTo(S, n - 1)
       IN  shorter \cup { Append(s, e) : s \in { t \in shorter : Len(t) = n - 1 }, e \in S }

\* step lists an exploit generator returns (order not yet assigned): a CAMRO
\* sequence, each phase at most once and in cycle order, closed by the
\* OBSERVE step that carries the criterion
StepLists ==
  { Append(s, ObserveStep) : s \in
      { t \in SeqsUpTo({CaptureStep, ReplayStep}, MaxSteps - 1) :
          \A k \in 1..(Len(t) - 1) : PhaseRank(t[k].phase) < PhaseRank(t[k + 1].phase) } }

Exploits == {"idor_walk", "token_swap"}

\* AttackOpportunity: the exploit it prescribes and the steps its generator
\* yields for its (exploit_target, observation)
Opportunities == [recommended_exploit : Exploits, steps : StepLists]

\* an opportunity the critic may leave behind the first one
OtherOpportunity ==
  [recommended_exploit |-> "idor_walk",
   steps |-> << ObserveStep >>]

\* AttackPlan.attack_plan: zero, one or two opportunities
Plans ==
  { <<>> } \cup { <<o>> : o \in Opportunities }
           \cup { <<o, OtherOpportunity>> : o \in Opportunities }

\* StepResult, as the handlers build it: an HTTP response below 400 has no
\* stderr; status >= 400 puts a short summary into stderr; an exception or a
\* timeout puts its message into stderr with status 0
HandlerResults ==
  { r \in [stdout : StdoutTexts, stderr : StderrTexts,
           status_code : StatusCodes, success_criteria_matched : BOOLEAN] :
      \/ r.stderr = EmptyText /\ r.status_code = 200
                              /\ ("timeout" \in r.stdout => ~r.success_criteria_matched)
      \/ r.stderr = {"x"} /\ r.status_code \in {0, 401, 503} /\ r.stdout = {"x"}
                          /\ (r.success_criteria_matched => r.status_code = 503)
      \/ r.stderr \in { {"x", "timed out"}, {"x", "forbidden"} }
           /\ r.status_code = 0 /\ r.stdout = {"x"} /\ ~r.success_criteria_matched }

\* what the HTTP handler writes into the context while executing
HandlerEffects == {"none", "cookie", "token"}

\* ------------------------------------------------------------ variables
VARIABLES
  fingerprints,     \* Fingerprint nodes of the store (their hashes)
  graphs,           \* ActionGraph nodes in creation order; the index is the id
  repairedTo,       \* REPAIRED_TO edges of the store
  total_tokens,     \* agents._total_tokens
  pc,               \* position of the run
  runs,             \* number of runs started
  fp,               \* fingerprint hash of the run
  ag,               \* run(): ag
  compiled,         \* run(): compiled
  mode,             \* which caller _compile serves: "cold" or "repair"
  iter,             \* _compile: i
  recon_iter,       \* ProgrammaticAgent.__call__: loop counter
  action_graph,     \* _execute: action_graph
  sorted_steps,     \* _execute: sorted_steps
  i,                \* _execute: i
  steps_executed,   \* _execute: steps_executed
  repaired,         \* _execute: repaired
  findings,         \* _execute: len(findings)
  ctx,              \* _execute: ctx
  result,           \* what run() handed to its caller
  obs,              \* observations of the run, for the properties
  cf_args,          \* classify_failure: the arguments of the call
  cf_ret,           \* classify_failure: the value returned
  current_run_thread, \* server._current_run_thread: 0 is None, else a worker
  stop_requested,   \* server._stop_requested
  workers,          \* the Thread objects created by api_run
  requests,         \* the HTTP requests and the position of their handlers
  db,               \* GraphRepository: the nodes and relationships in Neo4j
  gg_ret,           \* get_action_graph_with_steps: the value returned
  rsc_call,         \* repair_step_chain: the call made and the chain it found
  fn_args,          \* the arguments of the function studied on its own
  fn_ret,           \* whether that function returned, and its value
  recon_call        \* ProgrammaticAgent.__call__: its locals and how it ended

storeVars == <<fingerprints, graphs, repairedTo>>
compileVars == <<mode, iter, recon_iter>>
execVars == <<action_graph, sorted_steps, i, steps_executed, repaired, findings, ctx>>
runVars == <<fingerprints, graphs, repairedTo, total_tokens, pc, runs, fp, ag, compiled,
             mode, iter, recon_iter, action_graph, sorted_steps, i, steps_executed,
             repaired, findings, ctx, result, obs>>
\* the state of the components studied on their own, outside run()
unitVars == <<cf_args, cf_ret, current_run_thread, stop_requested, workers, requests,
              db, gg_ret, rsc_call, fn_args, fn_ret, recon_call>>
classifyVars == <<cf_args, cf_ret>>
monitorVars == <<current_run_thread, stop_requested, workers, requests>>
repoVars == <<db, gg_ret, rsc_call>>
fnVars == <<fn_args, fn_ret>>
agentVars == <<recon_call>>
vars == <<runVars, unitVars>>

\* ------------------------------------------------- pure functions of the code
\* sorted(steps, key=lambda s: s.order): stable insertion by order
RECURSIVE InsertByOrder(_, _)
InsertByOrder(sorted, s) ==
  IF sorted = <<>> THEN << s >>
  ELSE IF Head(sorted).order <= s.order
       THEN << Head(sorted) >> \o InsertByOrder(Tail(sorted), s)
       ELSE << s >> \o sorted

RECURSIVE SortByOrder(_)
SortByOrder(steps) ==
  IF steps = <<>> THEN <<>>
  ELSE InsertByOrder(SortByOrder(SubSeq(steps, 1, Len(steps) - 1)), steps[Len(steps)])

\* a generated step with its order field set
WithOrder(kind, n) ==
  [order |-> n, phase |-> kind.phase, type |-> kind.type,
   success_criteria |-> kind.success_criteria]

\* plan.attack_plan[:2]
FirstOpportunities_Two(plan) == SubSeq(plan, 1, IF Len(plan) < 2 THEN Len(plan) ELSE 2)

\* plan.attack_plan[:1]
FirstOpportunities(plan) == SubSeq(plan, 1, IF Len(plan) < 1 THEN Len(plan) ELSE 1)

\* the steps of the opportunities taken, concatenated in plan order
RECURSIVE GeneratedSteps(_)
GeneratedSteps(opps) ==
  IF opps = <<>> THEN <<>> ELSE Head(opps).steps \o GeneratedSteps(Tail(opps))

\* attack_plan_to_action_graph: steps of the first opportunity, order 1..n
AttackPlanToActionGraph(plan) ==
  LET all == GeneratedSteps(FirstOpportunities(plan))
  IN  [k \in 1..Len(all) |-> WithOrder(all[k], k)]

\* token_swap needs a bearer-token profile; its generator raises otherwise
GeneratorRaises(plan, bearer) ==
  /\ Len(plan) >= 1
  /\ plan[1].recommended_exploit = "token_swap"
  /\ ~bearer

\* str.lower() on the marks of a text: the marks written with capitals
\* become the lower-case phrase, the others are lower-case already
Lower(w) ==
  CASE w = "TIMEOUT" -> "timeout"
    [] w = "Timed Out" -> "timed out"
    [] w = "Unauthorized" -> "unauthorized"
    [] OTHER -> w

\* classify_failure: a word is found when the lower-cased text contains it
ClassifyFailure_StatusFirst(error_log, status_code) ==
  LET error_lower == { Lower(w) : w \in error_log }
  IN  IF status_code \in {429, 503} THEN "transient_recoverable"
      ELSE IF status_code \in {401, 403, 404} THEN "transient_unrecoverable"
      ELSE IF error_lower \cap {"timeout", "timed out", "connection reset"} # {}
           THEN "transient_recoverable"
      ELSE IF error_lower \cap {"session expired", "unauthorized", "forbidden"} # {}
           THEN "transient_unrecoverable"
      ELSE "systemic"

ClassifyFailure(error_log, status_code) ==
  LET error_lower == { Lower(w) : w \in error_log }
  IN  IF status_code \in {429, 503} THEN "transient_recoverable"
      ELSE IF error_lower \cap {"timeout", "timed out", "connection reset"} # {}
           THEN "transient_recoverable"
      ELSE IF status_code \in {401, 403, 404} THEN "transient_unrecoverable"
      ELSE IF error_lower \cap {"session expired", "unauthorized", "forbidden"} # {}
           THEN "transient_unrecoverable"
      ELSE "systemic"

\* result.stderr or result.stdout
ErrorLog(r) == IF r.stderr # EmptyText THEN r.stderr ELSE r.stdout

\* step_failed in _execute
StepFailed(step, r) ==
  \/ r.stderr # EmptyText
  \/ step.success_criteria /\ ~r.success_criteria_matched

\* the finding test in _execute
IsFinding(step, r) ==
  r.success_criteria_matched /\ step.success_criteria /\ step.phase = "OBSERVE"

\* _execute: a failure after a repair ends the run at once
AbortAfterRepair_NoGuard(rep) == FALSE

AbortAfterRepair(rep) == rep

\* _handle_step_failure: the retry branch is taken
TakesRetry(failure_type, retried) ==
  failure_type = "transient_recoverable" /\ ~retried

\* _handle_step_failure: the retry counts as good when it reports no stderr
RetrySucceeded(retry_result) == retry_result.stderr = EmptyText

\* _handle_step_failure: failure_type after a retry that reported stderr
RetryFailureType_Reclassified(retry_result) ==
  ClassifyFailure(ErrorLog(retry_result), retry_result.status_code)

RetryFailureType(retry_result) == "systemic"

\* _handle_step_failure, after the retry branch: what each tier leads to
FailureAction_RepairUnrecoverable(failure_type) ==
  IF failure_type \in {"transient_unrecoverable", "systemic"} THEN "repair" ELSE "abort"

FailureAction(failure_type) ==
  IF failure_type = "transient_unrecoverable" THEN "abort"
  ELSE IF failure_type = "systemic" THEN "repair"
  ELSE "abort"

\* _check_budget raises
BudgetExhausted_Strict(total) == total > MaxTokenBudget

BudgetExhausted(total) == total >= MaxTokenBudget

\* ProgrammaticAgent: for _ in range(self.max_iterations), after k rounds
ReconLoopRuns_OneMore(k) == k <= ReconMaxIterations

ReconLoopRuns(k) == k < ReconMaxIterations

\* run(): path
PathOf_IgnoreRepair(rep, comp) == IF comp THEN "cold_start" ELSE "warm_start"

PathOf(rep, comp) ==
  IF rep THEN "repair" ELSE IF comp THEN "cold_start" ELSE "warm_start"

\* ExecutionContext(target_url=..., fingerprint=...)
FreshContext == [previous_outputs |-> <<>>, cookies |-> {}, session_tokens |-> {}]

\* _execute, on ("repaired", new_ag): the context the loop continues with
ContextAfterRepair_Kept(c) == c

ContextAfterRepair(c) == FreshContext

\* dict[key] = value on a dict held as a set of <<key, value>> pairs
DictPut(d, k, v) == { p \in d : p[1] # k } \cup { <<k, v>> }

\* what HTTPRequestHandler.execute leaves in the context; the values written
\* are tagged with the graph whose step obtained them
ApplyEffect(c, eff, g) ==
  IF eff = "cookie" THEN [c EXCEPT !.cookies = DictPut(@, "sid", g)]
  ELSE IF eff = "token" THEN [c EXCEPT !.session_tokens = DictPut(@, "Authorization", g)]
  ELSE c

\* ctx.previous_outputs.append(stdout): the output is tagged with the graph
\* and the order of the step that produced it and with the dispatch ("first"
\* or "retry") that returned it
AppendOutput(c, g, step, attempt, stdout) ==
  [c EXCEPT !.previous_outputs =
     Append(@, [graph |-> g, order |-> step.order, attempt |-> attempt, text |-> stdout])]

\* ------------------------------------------------------------- repository
\* save_fingerprint: MERGE on hash
SaveFingerprint(fps, h) == fps \cup {h}

\* save_action_graph: the node is created under an existing fingerprint,
\* its steps chained by NEXT in ascending order
SaveActionGraph(gs, fps, h, steps) ==
  IF h \in fps
  THEN Append(gs, [fp |-> h, steps |-> SortByOrder(steps),
                   times_executed |-> 0, times_succeeded |-> 0, findings |-> 0])
  ELSE gs

\* get_action_graph_with_steps: the graphs of the hash that have a
\* STARTS_WITH edge, i.e. at least one step
Fetchable(gs, h) == { g \in 1..Len(gs) : gs[g].fp = h /\ Len(gs[g].steps) >= 1 }

\* ... ORDER BY pathLen DESC LIMIT 1: one with the longest chain
GetActionGraphWithSteps_NeedsNext(gs, h) ==
  { g \in Fetchable(gs, h) :
      /\ Len(gs[g].steps) >= 2
      /\ \A g2 \in Fetchable(gs, h) : Len(gs[g2].steps) <= Len(gs[g].steps) }

GetActionGraphWithSteps(gs, h) ==
  { g \in Fetchable(gs, h) :
      \A g2 \in Fetchable(gs, h) : Len(gs[g2].steps) <= Len(gs[g].steps) }

\* save_finding
SaveFinding(gs, g) ==
  IF g \in 1..Len(gs) THEN [gs EXCEPT ![g].findings = @ + 1] ELSE gs

\* increment_execution_count
IncrementExecutionCount_SuccessFirst(gs, g, succeeded) ==
  IF g \in 1..Len(gs)
  THEN [gs EXCEPT ![g].times_succeeded = @ + 1,
                  ![g].times_executed = IF succeeded THEN @ + 1 ELSE @]
  ELSE gs

IncrementExecutionCount(gs, g, succeeded) ==
  IF g \in 1..Len(gs)
  THEN [gs EXCEPT ![g].times_executed = @ + 1,
                  ![g].times_succeeded = IF succeeded THEN @ + 1 ELSE @]
  ELSE gs

RECURSIVE SumExecuted(_)
SumExecuted(gs) ==
  IF gs = <<>> THEN 0 ELSE Head(gs).times_executed + SumExecuted(Tail(gs))

RECURSIVE SumSucceeded(_)
SumSucceeded(gs) ==
  IF gs = <<>> THEN 0 ELSE Head(gs).times_succeeded + SumSucceeded(Tail(gs))

\* ------------------------------------------------------------------- Init
NoResult == [status |-> "none"]

\* classify_failure has not been called
NoArgs == [error_log |-> EmptyText, status_code |-> 0]

NoLast == [kind |-> "none", tier |-> "none", classified |-> FALSE, retried |-> FALSE,
           retry_tier |-> "none"]

NoObs ==
  [modelCalls |-> 0, compileCalls |-> 0, repairCalls |-> 0, retries |-> 0,
   retryMatched |-> FALSE, raisedIter |-> -1, graphsAtCompile |-> 0,
   executedAtStart |-> 0, succeededAtStart |-> 0,
   hashKnownAtStart |-> FALSE, graphAtStart |-> FALSE,
   firstLen |-> 0, last |-> NoLast]

\* a Thread object that does not exist yet
NoWorker ==
  [state |-> "unborn", steps |-> 0, stopped |-> FALSE, late |-> FALSE,
   run_end |-> 0, outcome |-> "none"]

\* a request that has not arrived yet
NoRequest == [kind |-> "none", pc |-> "idle", response |-> "none", aliveAtReceipt |-> FALSE]

WorkerIds == 1..MaxWorkers

RequestIds == 1..MaxRequests

\* classify_failure is not being called
ClassifyIdle ==
  /\ cf_args = NoArgs
  /\ cf_ret = "none"

\* the monitor's module state after import
MonitorIdle ==
  /\ current_run_thread = 0
  /\ stop_requested = FALSE
  /\ workers = [w \in WorkerIds |-> NoWorker]
  /\ requests = [r \in RequestIds |-> NoRequest]

\* no component call is under study
\* an empty database, no query made
NoRecord == [called |-> FALSE, hash |-> 0, found |-> FALSE, ag |-> 0, steps |-> <<>>]

\* the properties of a Fingerprint node besides its identity
NoProps == [security_signals |-> <<>>, observation_embedding |-> "None"]

\* props: the properties of the Fingerprint node of each hash; created: the
\* properties it was created with
EmptyDb == [fingerprints |-> {}, graphs |-> <<>>, steps |-> <<>>,
            NEXT |-> {}, STARTS_WITH |-> {}, REPAIRED_TO |-> {},
            props |-> [h \in Hashes |-> NoProps],
            created |-> [h \in Hashes |-> NoProps]]

\* repair_step_chain has not been called
NoRepair == [called |-> FALSE, ag |-> 0, failed_step_order |-> 0, new_steps |-> <<>>,
             chain |-> <<>>]

RepoIdle ==
  /\ db = EmptyDb
  /\ gg_ret = NoRecord
  /\ rsc_call = NoRepair

\* no function is under study
NoReturn == [done |-> FALSE, value |-> <<>>]

FnIdle ==
  /\ fn_args = <<>>
  /\ fn_ret = NoReturn

\* the recon agent has not been called
NoCall == [pc |-> "idle", iteration |-> 0, messages |-> <<>>,
           response |-> [stop_reason |-> "", content |-> <<>>],
           inp |-> "unbound", raised |-> ""]

AgentIdle == recon_call = NoCall

UnitsIdle ==
  /\ AgentIdle
  /\ ClassifyIdle
  /\ MonitorIdle
  /\ RepoIdle
  /\ FnIdle

\* run() has not been called: empty store, no tokens spent
RunIdle ==
  /\ fingerprints = {}
  /\ graphs = <<>>
  /\ repairedTo = {}
  /\ total_tokens = 0
  /\ pc = "idle"
  /\ runs = 0
  /\ fp = 1
  /\ ag = 0
  /\ compiled = FALSE
  /\ mode = "cold"
  /\ iter = 0
  /\ recon_iter = 0
  /\ action_graph = 0
  /\ sorted_steps = <<>>
  /\ i = 0
  /\ steps_executed = 0
  /\ repaired = FALSE
  /\ findings = 0
  /\ ctx = FreshContext
  /\ result = NoResult
  /\ obs = NoObs

Init ==
  /\ RunIdle
  /\ UnitsIdle

\* ---------------------------------------------------------------- run()
\* _execute up to its loop: fresh context, steps sorted by order
BeginExecute(g, steps) ==
  /\ action_graph' = g
  /\ sorted_steps' = SortByOrder(steps)
  /\ i' = 0
  /\ steps_executed' = 0
  /\ repaired' = FALSE
  /\ findings' = 0
  /\ ctx' = FreshContext

\* the locals of run(), _compile and _execute are gone once run() is left
DropLocals ==
  /\ ag' = 0
  /\ compiled' = FALSE
  /\ mode' = "cold"
  /\ iter' = 0
  /\ recon_iter' = 0
  /\ action_graph' = 0
  /\ sorted_steps' = <<>>
  /\ i' = 0
  /\ steps_executed' = 0
  /\ repaired' = FALSE
  /\ findings' = 0
  /\ ctx' = FreshContext

\* run() returning: increment_execution_count on ag, then the result;
\* executing is the graph _execute was walking when it returned
Finish(gs, success, executed, found, rep) ==
  /\ graphs' = IncrementExecutionCount(gs, ag, success)
  /\ result' = [status |-> "returned", path |-> PathOf(rep, compiled),
                action_graph_id |-> ag, success |-> success,
                steps_executed |-> executed, findings |-> found,
                repaired |-> rep, compiled |-> compiled,
                executing |-> action_graph]
  /\ pc' = "returned"
  /\ DropLocals

\* an exception leaving run(): nothing after the raising call is executed
Escapes ==
  /\ result' = [status |-> "raised"]
  /\ pc' = "raised"
  /\ DropLocals

StartObs(h) ==
  [NoObs EXCEPT !.executedAtStart = SumExecuted(graphs),
                !.succeededAtStart = SumSucceeded(graphs),
                !.hashKnownAtStart = (h \in fingerprints),
                !.graphAtStart = (Fetchable(graphs, h) # {})]

\* run(): save_fingerprint, _try_warm_start finds a graph, _execute begins
RunWarm(h) ==
  /\ pc \in {"idle", "returned", "raised"}
  /\ runs < MaxRuns
  /\ GetActionGraphWithSteps(graphs, h) # {}
  /\ \E g \in GetActionGraphWithSteps(graphs, h) :
       /\ ag' = g
       /\ BeginExecute(g, graphs[g].steps)
       /\ obs' = [StartObs(h) EXCEPT !.firstLen = Len(graphs[g].steps)]
  /\ fingerprints' = SaveFingerprint(fingerprints, h)
  /\ fp' = h
  /\ runs' = runs + 1
  /\ compiled' = FALSE
  /\ result' = NoResult
  /\ pc' = "exec"
  /\ UNCHANGED <<graphs, repairedTo, total_tokens, mode, iter, recon_iter>>
  /\ UNCHANGED unitVars

\* run(): save_fingerprint, _try_warm_start returns None, _compile begins
RunCold(h) ==
  /\ pc \in {"idle", "returned", "raised"}
  /\ runs < MaxRuns
  /\ GetActionGraphWithSteps(graphs, h) = {}
  /\ fingerprints' = SaveFingerprint(fingerprints, h)
  /\ fp' = h
  /\ runs' = runs + 1
  /\ compiled' = FALSE
  /\ result' = NoResult
  /\ ag' = 0
  /\ mode' = "cold"
  /\ iter' = 0
  /\ recon_iter' = 0
  /\ pc' = "compile"
  /\ obs' = [StartObs(h) EXCEPT !.compileCalls = 1, !.graphsAtCompile = Len(graphs)]
  /\ UNCHANGED <<graphs, repairedTo, total_tokens>>
  /\ UNCHANGED execVars
  /\ UNCHANGED unitVars

\* ------------------------------------------------------------- _compile
\* an exception caught inside the loop of _compile: continue
IterationFailed ==
  /\ iter' = iter + 1
  /\ recon_iter' = 0
  /\ pc' = "compile"

\* an exception that leaves _compile: run() lets it escape on a cold start;
\* _handle_step_failure turns it into "abort" during a repair
CompileFails ==
  IF mode = "cold"
  THEN /\ Escapes
       /\ graphs' = graphs
  ELSE Finish(graphs, FALSE, steps_executed, findings, repaired)

FailedRepairObs(o) == IF mode = "cold" THEN o ELSE [o EXCEPT !.last.kind = "repair_failed"]

\* _compile raised in iteration iter (max_critic_iterations when the loop ran out)
CompileRaisedObs(o) == [FailedRepairObs(o) EXCEPT !.raisedIter = iter]

\* one model call: usage is added to the counter
ModelCall(u) ==
  /\ total_tokens' = total_tokens + u
  /\ obs' = [obs EXCEPT !.modelCalls = @ + 1]

\* the recon agent is called and _check_budget raises at once
CompileIterBudget ==
  /\ pc = "compile"
  /\ iter < MaxCriticIterations
  /\ BudgetExhausted(total_tokens)
  /\ IterationFailed
  /\ UNCHANGED <<storeVars, total_tokens, runs, fp, ag, compiled, mode, result, obs>>
  /\ UNCHANGED execVars
  /\ UNCHANGED unitVars

\* the recon agent is called and enters its loop
CompileIterRecon ==
  /\ pc = "compile"
  /\ iter < MaxCriticIterations
  /\ ~BudgetExhausted(total_tokens)
  /\ pc' = "recon"
  /\ recon_iter' = 0
  /\ UNCHANGED <<storeVars, total_tokens, runs, fp, ag, compiled, mode, iter, result, obs>>
  /\ UNCHANGED execVars
  /\ UNCHANGED unitVars

\* raise RuntimeError("Compilation failed after N iterations")
CompileExhausted ==
  /\ pc = "compile"
  /\ iter >= MaxCriticIterations
  /\ CompileFails
  /\ obs' = CompileRaisedObs(obs)
  /\ UNCHANGED <<fingerprints, repairedTo, total_tokens, runs, fp>>
  /\ UNCHANGED unitVars

\* ProgrammaticAgent: the loop ran max_iterations times
ReconCapReached ==
  /\ pc = "recon"
  /\ ~ReconLoopRuns(recon_iter)
  /\ IterationFailed
  /\ UNCHANGED <<storeVars, total_tokens, runs, fp, ag, compiled, mode, result, obs>>
  /\ UNCHANGED execVars
  /\ UNCHANGED unitVars

\* ProgrammaticAgent: _check_budget raises inside the loop
ReconBudget ==
  /\ pc = "recon"
  /\ ReconLoopRuns(recon_iter)
  /\ BudgetExhausted(total_tokens)
  /\ IterationFailed
  /\ UNCHANGED <<storeVars, total_tokens, runs, fp, ag, compiled, mode, result, obs>>
  /\ UNCHANGED execVars
  /\ UNCHANGED unitVars

\* ProgrammaticAgent: stop_reason tool_use or pause_turn, the loop continues
ReconToolUse ==
  /\ pc = "recon"
  /\ ReconLoopRuns(recon_iter)
  /\ ~BudgetExhausted(total_tokens)
  /\ \E u \in 1..MaxUsage : ModelCall(u)
  /\ recon_iter' = recon_iter + 1
  /\ UNCHANGED <<storeVars, pc, runs, fp, ag, compiled, mode, iter, result>>
  /\ UNCHANGED execVars
  /\ UNCHANGED unitVars

\* ProgrammaticAgent: a tool handler raises, or end_turn without parsed
\* output, or an unexpected stop_reason
ReconRaises ==
  /\ pc = "recon"
  /\ ReconLoopRuns(recon_iter)
  /\ ~BudgetExhausted(total_tokens)
  /\ \E u \in 1..MaxUsage : ModelCall(u)
  /\ IterationFailed
  /\ UNCHANGED <<storeVars, runs, fp, ag, compiled, mode, result>>
  /\ UNCHANGED execVars
  /\ UNCHANGED unitVars

\* ProgrammaticAgent: end_turn with a parsed AttackPlan
ReconPlan ==
  /\ pc = "recon"
  /\ ReconLoopRuns(recon_iter)
  /\ ~BudgetExhausted(total_tokens)
  /\ \E u \in 1..MaxUsage : ModelCall(u)
  /\ pc' = "critic"
  /\ UNCHANGED <<storeVars, runs, fp, ag, compiled, mode, iter, recon_iter, result>>
  /\ UNCHANGED execVars
  /\ UNCHANGED unitVars

\* SimpleAgent: _check_budget raises
CriticBudget ==
  /\ pc = "critic"
  /\ BudgetExhausted(total_tokens)
  /\ IterationFailed
  /\ UNCHANGED <<storeVars, total_tokens, runs, fp, ag, compiled, mode, result, obs>>
  /\ UNCHANGED execVars
  /\ UNCHANGED unitVars

\* SimpleAgent: truncated response or no parsed output
CriticRaises ==
  /\ pc = "critic"
  /\ ~BudgetExhausted(total_tokens)
  /\ \E u \in 1..MaxUsage : ModelCall(u)
  /\ IterationFailed
  /\ UNCHANGED <<storeVars, runs, fp, ag, compiled, mode, result>>
  /\ UNCHANGED execVars
  /\ UNCHANGED unitVars

\* the critic answers, attack_plan_to_action_graph raises in a generator:
\* lines 175-177 stand outside the try blocks, the exception leaves _compile
CriticPlanRaises ==
  /\ pc = "critic"
  /\ ~BudgetExhausted(total_tokens)
  /\ \E plan \in Plans, bearer \in BOOLEAN : GeneratorRaises(plan, bearer)
  /\ \E u \in 1..MaxUsage : total_tokens' = total_tokens + u
  /\ CompileFails
  /\ obs' = CompileRaisedObs([obs EXCEPT !.modelCalls = @ + 1])
  /\ UNCHANGED <<fingerprints, repairedTo, runs, fp>>
  /\ UNCHANGED unitVars

\* the critic answers on a cold start: the graph is saved, _execute begins
CriticPlanCold ==
  /\ pc = "critic"
  /\ mode = "cold"
  /\ ~BudgetExhausted(total_tokens)
  /\ \E u \in 1..MaxUsage : total_tokens' = total_tokens + u
  /\ \E plan \in Plans, bearer \in BOOLEAN :
       /\ ~GeneratorRaises(plan, bearer)
       /\ graphs' = SaveActionGraph(graphs, fingerprints, fp, AttackPlanToActionGraph(plan))
       /\ ag' = Len(graphs')
       /\ BeginExecute(Len(graphs'), AttackPlanToActionGraph(plan))
       /\ obs' = [obs EXCEPT !.modelCalls = @ + 1,
                             !.firstLen = Len(AttackPlanToActionGraph(plan))]
  /\ compiled' = TRUE
  /\ pc' = "exec"
  /\ UNCHANGED <<fingerprints, repairedTo, runs, fp, result>>
  /\ UNCHANGED compileVars
  /\ UNCHANGED unitVars

\* the critic answers during a repair: the graph is saved, _execute installs
\* it with a new context and restarts its loop
CriticPlanRepair ==
  /\ pc = "critic"
  /\ mode = "repair"
  /\ ~BudgetExhausted(total_tokens)
  /\ \E u \in 1..MaxUsage : total_tokens' = total_tokens + u
  /\ \E plan \in Plans, bearer \in BOOLEAN :
       /\ ~GeneratorRaises(plan, bearer)
       /\ graphs' = SaveActionGraph(graphs, fingerprints, fp, AttackPlanToActionGraph(plan))
       /\ action_graph' = Len(graphs')
       /\ sorted_steps' = SortByOrder(AttackPlanToActionGraph(plan))
  /\ obs' = [obs EXCEPT !.modelCalls = @ + 1, !.last.kind = "repaired"]
  /\ repaired' = TRUE
  /\ ctx' = ContextAfterRepair(ctx)
  /\ i' = 0
  /\ pc' = "exec"
  /\ UNCHANGED <<fingerprints, repairedTo, runs, fp, ag, compiled, result>>
  /\ UNCHANGED <<steps_executed, findings>>
  /\ UNCHANGED compileVars
  /\ UNCHANGED unitVars

\* ------------------------------------------------------------- _execute
CurrentStep == sorted_steps[i + 1]

\* the store after the finding check of a dispatch
AfterFinding(found) ==
  IF found THEN SaveFinding(graphs, action_graph) ELSE graphs

FoundAfter(found) == IF found THEN findings + 1 ELSE findings

\* the results of a first dispatch that _handle_step_failure answers with a retry
RetriedResults(step) ==
  { r \in HandlerResults :
      /\ StepFailed(step, r)
      /\ TakesRetry(ClassifyFailure(ErrorLog(r), r.status_code), FALSE) }

\* the context after the first dispatch and the retry have both written to it
AfterTwoDispatches(c, g) ==
  { ApplyEffect(ApplyEffect(c, eff, g), eff2, g) :
      eff \in HandlerEffects, eff2 \in HandlerEffects }

Last(kind, tier, classified, retried) ==
  [kind |-> kind, tier |-> tier, classified |-> classified, retried |-> retried,
   retry_tier |-> "none"]

\* the loop is exhausted: ExecutionResult(success=True)
ExecuteDone ==
  /\ pc = "exec"
  /\ i >= Len(sorted_steps)
  /\ Finish(graphs, TRUE, steps_executed, findings, repaired)
  /\ UNCHANGED <<fingerprints, repairedTo, total_tokens, runs, fp, obs>>
  /\ UNCHANGED unitVars

\* get_handler or handler.execute raises: the exception leaves _execute and run
StepRaises ==
  /\ pc = "exec"
  /\ i < Len(sorted_steps)
  /\ Escapes
  /\ obs' = [obs EXCEPT !.last = Last("raise", "none", FALSE, FALSE)]
  /\ UNCHANGED <<storeVars, total_tokens, runs, fp>>
  /\ UNCHANGED unitVars

\* the step did not fail: its stdout is appended and the loop advances
StepAdvance ==
  /\ pc = "exec"
  /\ i < Len(sorted_steps)
  /\ \E r \in HandlerResults, eff \in HandlerEffects :
       /\ ~StepFailed(CurrentStep, r)
       /\ graphs' = AfterFinding(IsFinding(CurrentStep, r))
       /\ findings' = FoundAfter(IsFinding(CurrentStep, r))
       /\ ctx' = AppendOutput(ApplyEffect(ctx, eff, action_graph),
                              action_graph, CurrentStep, "first", r.stdout)
  /\ steps_executed' = steps_executed + 1
  /\ i' = i + 1
  /\ obs' = [obs EXCEPT !.last = Last("advance", "none", FALSE, FALSE)]
  /\ UNCHANGED <<fingerprints, repairedTo, total_tokens, pc, runs, fp, ag, compiled, result>>
  /\ UNCHANGED <<action_graph, sorted_steps, repaired>>
  /\ UNCHANGED compileVars
  /\ UNCHANGED unitVars

\* the step failed after a repair: the run ends without classification
StepAbortAfterRepair ==
  /\ pc = "exec"
  /\ i < Len(sorted_steps)
  /\ AbortAfterRepair(repaired)
  /\ \E r \in HandlerResults :
       /\ StepFailed(CurrentStep, r)
       /\ Finish(AfterFinding(IsFinding(CurrentStep, r)), FALSE, steps_executed + 1,
                 FoundAfter(IsFinding(CurrentStep, r)), repaired)
       /\ obs' = [obs EXCEPT !.last =
                    Last("abort_after_repair",
                         ClassifyFailure(ErrorLog(r), r.status_code), FALSE, FALSE)]
  /\ UNCHANGED <<fingerprints, repairedTo, total_tokens, runs, fp>>
  /\ UNCHANGED unitVars

\* _handle_step_failure: recoverable, the retry reports no stderr: "retry"
StepRetryOk ==
  /\ pc = "exec"
  /\ i < Len(sorted_steps)
  /\ ~AbortAfterRepair(repaired)
  /\ \E found \in { IsFinding(CurrentStep, r) : r \in RetriedResults(CurrentStep) },
        c \in AfterTwoDispatches(ctx, action_graph),
        retry_result \in { rr \in HandlerResults : RetrySucceeded(rr) } :
       /\ graphs' = AfterFinding(found)
       /\ findings' = FoundAfter(found)
       /\ ctx' = AppendOutput(c, action_graph, CurrentStep, "retry", retry_result.stdout)
       /\ obs' = [obs EXCEPT !.retries = @ + 1,
                             !.retryMatched = retry_result.success_criteria_matched,
                             !.last = Last("retry", "transient_recoverable", TRUE, TRUE)]
  /\ steps_executed' = steps_executed + 1
  /\ i' = i + 1
  /\ UNCHANGED <<fingerprints, repairedTo, total_tokens, pc, runs, fp, ag, compiled, result>>
  /\ UNCHANGED <<action_graph, sorted_steps, repaired>>
  /\ UNCHANGED compileVars
  /\ UNCHANGED unitVars

\* _handle_step_failure: recoverable, the retry dispatch raises
StepRetryRaises ==
  /\ pc = "exec"
  /\ i < Len(sorted_steps)
  /\ ~AbortAfterRepair(repaired)
  /\ \E found \in { IsFinding(CurrentStep, r) : r \in RetriedResults(CurrentStep) } :
       graphs' = AfterFinding(found)
  /\ Escapes
  /\ obs' = [obs EXCEPT !.retries = @ + 1,
                        !.last = Last("raise", "transient_recoverable", TRUE, TRUE)]
  /\ UNCHANGED <<fingerprints, repairedTo, total_tokens, runs, fp>>
  /\ UNCHANGED unitVars

\* _repair: _compile is entered with the repair context
BeginRepair ==
  /\ mode' = "repair"
  /\ iter' = 0
  /\ recon_iter' = 0
  /\ pc' = "compile"

\* _handle_step_failure: recoverable, the retry reports stderr: the failure
\* becomes systemic and _repair is called
StepRetryFailed ==
  /\ pc = "exec"
  /\ i < Len(sorted_steps)
  /\ ~AbortAfterRepair(repaired)
  /\ \E retry_result \in { rr \in HandlerResults : ~RetrySucceeded(rr) },
        found \in { IsFinding(CurrentStep, r) : r \in RetriedResults(CurrentStep) },
        c \in AfterTwoDispatches(ctx, action_graph) :
       LET tier == ClassifyFailure(ErrorLog(retry_result), retry_result.status_code)
       IN  IF FailureAction(RetryFailureType(retry_result)) = "repair"
           THEN /\ graphs' = AfterFinding(found)
                /\ findings' = FoundAfter(found)
                /\ ctx' = c
                /\ BeginRepair
                /\ steps_executed' = steps_executed + 1
                /\ obs' = [obs EXCEPT !.retries = @ + 1, !.repairCalls = @ + 1,
                                      !.compileCalls = @ + 1,
                                      !.graphsAtCompile = Len(graphs),
                                      !.last = [Last("repair", "transient_recoverable",
                                                     TRUE, TRUE)
                                                  EXCEPT !.retry_tier = tier]]
                /\ UNCHANGED <<ag, compiled, result>>
                /\ UNCHANGED <<action_graph, sorted_steps, i, repaired>>
           ELSE /\ Finish(AfterFinding(found), FALSE, steps_executed + 1,
                          FoundAfter(found), repaired)
                /\ obs' = [obs EXCEPT !.retries = @ + 1,
                                      !.last = [Last("abort", "transient_recoverable",
                                                     TRUE, TRUE)
                                                  EXCEPT !.retry_tier = tier]]
  /\ UNCHANGED <<fingerprints, repairedTo, total_tokens, runs, fp>>
  /\ UNCHANGED unitVars

\* _handle_step_failure: no retry, the tier leads to "abort"
StepAbort ==
  /\ pc = "exec"
  /\ i < Len(sorted_steps)
  /\ ~AbortAfterRepair(repaired)
  /\ \E r \in HandlerResults :
       /\ StepFailed(CurrentStep, r)
       /\ ~TakesRetry(ClassifyFailure(ErrorLog(r), r.status_code), FALSE)
       /\ FailureAction(ClassifyFailure(ErrorLog(r), r.status_code)) = "abort"
       /\ Finish(AfterFinding(IsFinding(CurrentStep, r)), FALSE, steps_executed + 1,
                 FoundAfter(IsFinding(CurrentStep, r)), repaired)
       /\ obs' = [obs EXCEPT !.last =
                    Last("abort", ClassifyFailure(ErrorLog(r), r.status_code), TRUE, FALSE)]
  /\ UNCHANGED <<fingerprints, repairedTo, total_tokens, runs, fp>>
  /\ UNCHANGED unitVars

\* _handle_step_failure: no retry, the tier leads to _repair
StepSystemic ==
  /\ pc = "exec"
  /\ i < Len(sorted_steps)
  /\ ~AbortAfterRepair(repaired)
  /\ \E r \in HandlerResults, eff \in HandlerEffects :
       /\ StepFailed(CurrentStep, r)
       /\ ~TakesRetry(ClassifyFailure(ErrorLog(r), r.status_code), FALSE)
       /\ FailureAction(ClassifyFailure(ErrorLog(r), r.status_code)) = "repair"
       /\ graphs' = AfterFinding(IsFinding(CurrentStep, r))
       /\ findings' = FoundAfter(IsFinding(CurrentStep, r))
       /\ ctx' = ApplyEffect(ctx, eff, action_graph)
       /\ obs' = [obs EXCEPT !.repairCalls = @ + 1, !.compileCalls = @ + 1,
                             !.graphsAtCompile = Len(graphs),
                             !.last = Last("repair",
                                           ClassifyFailure(ErrorLog(r), r.status_code),
                                           TRUE, FALSE)]
  /\ BeginRepair
  /\ steps_executed' = steps_executed + 1
  /\ UNCHANGED <<fingerprints, repairedTo, total_tokens, runs, fp, ag, compiled, result>>
  /\ UNCHANGED <<action_graph, sorted_steps, i, repaired>>
  /\ UNCHANGED unitVars

\* ------------------------------------------------------------------- Next
Next ==
  \/ \E h \in Hashes : RunWarm(h)
  \/ \E h \in Hashes : RunCold(h)
  \/ CompileIterBudget
  \/ CompileIterRecon
  \/ CompileExhausted
  \/ ReconCapReached
  \/ ReconBudget
  \/ ReconToolUse
  \/ ReconRaises
  \/ ReconPlan
  \/ CriticBudget
  \/ CriticRaises
  \/ CriticPlanRaises
  \/ CriticPlanCold
  \/ CriticPlanRepair
  \/ ExecuteDone
  \/ StepRaises
  \/ StepAdvance
  \/ StepAbortAfterRepair
  \/ StepRetryOk
  \/ StepRetryRaises
  \/ StepRetryFailed
  \/ StepAbort
  \/ StepSystemic

Spec == Init /\ [][Next]_vars

TypeOK ==
  /\ pc \in {"idle", "compile", "recon", "critic", "exec", "returned", "raised"}
  /\ runs \in 0..MaxRuns
  /\ i \in 0..Len(sorted_steps)

\* ------------------------------------------------ classify_failure alone
\* marks of the texts classify_failure is called with: the six phrases it
\* looks for, three of them written with capitals, and ordinary text
ClassifyWords ==
  { "x", "timeout", "TIMEOUT", "Timed Out", "connection reset",
    "session expired", "Unauthorized", "forbidden" }

\* status codes it is called with; 0 stands for None (status_code or 0)
ClassifyCodes == {0, 200, 401, 403, 404, 429, 500, 503}

InitClassify ==
  /\ AgentIdle
  /\ RunIdle
  /\ MonitorIdle
  /\ RepoIdle
  /\ FnIdle
  /\ cf_args \in [error_log : SUBSET ClassifyWords, status_code : ClassifyCodes]
  /\ cf_ret = "none"

\* classify_failure(error_log, status_code) returns
ClassifyCall ==
  /\ cf_ret = "none"
  /\ cf_ret' = ClassifyFailure(cf_args.error_log, cf_args.status_code)
  /\ UNCHANGED <<cf_args, runVars, agentVars, monitorVars, repoVars, fnVars>>

NextClassify == ClassifyCall

SpecClassify == InitClassify /\ [][NextClassify]_vars

\* ------------------------------------------------------ monitor/server.py
\* Thread.is_alive(): started and its target has not finished
IsAlive(w) == workers[w].state \in {"running", "finally"}

\* orchestrator.run is executing in the worker
IsLive(w) == workers[w].state = "running"

Answer(r, response) == [requests EXCEPT ![r].pc = "done", ![r].response = response]

\* api_run, line 125: the guard on the current worker
RunCheck(r) ==
  /\ requests[r].kind = "none"
  /\ LET busy == current_run_thread # 0 /\ IsAlive(current_run_thread)
         received == [requests EXCEPT ![r].kind = "run",
                                      ![r].aliveAtReceipt = (\E w \in WorkerIds : IsAlive(w))]
     IN  requests' = IF busy
                     THEN [received EXCEPT ![r].pc = "done", ![r].response = "conflict"]
                     ELSE [received EXCEPT ![r].pc = "assign"]
  /\ UNCHANGED <<current_run_thread, stop_requested, workers>>
  /\ UNCHANGED <<runVars, agentVars, classifyVars, repoVars, fnVars>>

\* api_run, lines 128-131: the body does not validate
RunRejects(r) ==
  /\ requests[r].kind = "run"
  /\ requests[r].pc = "assign"
  /\ requests' = Answer(r, "bad_request")
  /\ UNCHANGED <<current_run_thread, stop_requested, workers>>
  /\ UNCHANGED <<runVars, agentVars, classifyVars, repoVars, fnVars>>

\* api_run, lines 144-148: a new Thread is bound to _current_run_thread
RunAssign(r) ==
  /\ requests[r].kind = "run"
  /\ requests[r].pc = "assign"
  /\ \E w \in WorkerIds :
       /\ workers[w].state = "unborn"
       /\ \A v \in WorkerIds : v < w => workers[v].state # "unborn"
       /\ workers' = [workers EXCEPT ![w].state = "created"]
       /\ current_run_thread' = w
  /\ requests' = [requests EXCEPT ![r].pc = "start"]
  /\ UNCHANGED stop_requested
  /\ UNCHANGED <<runVars, agentVars, classifyVars, repoVars, fnVars>>

\* api_run, lines 149-151: _current_run_thread.start() on whatever the
\* global holds now; None has no start, a started Thread refuses a second one
RunStart(r) ==
  /\ requests[r].kind = "run"
  /\ requests[r].pc = "start"
  /\ IF current_run_thread # 0 /\ workers[current_run_thread].state = "created"
     THEN /\ workers' = [workers EXCEPT ![current_run_thread].state = "running"]
          /\ requests' = Answer(r, "started")
     ELSE /\ workers' = workers
          /\ requests' = Answer(r, "error")
  /\ UNCHANGED <<current_run_thread, stop_requested>>
  /\ UNCHANGED <<runVars, agentVars, classifyVars, repoVars, fnVars>>

\* api_stop, lines 159-162: the guard, then _stop_requested.set()
StopCheck(r) ==
  /\ requests[r].kind = "none"
  /\ IF current_run_thread = 0 \/ ~IsAlive(current_run_thread)
     THEN /\ requests' = [Answer(r, "not_running") EXCEPT ![r].kind = "stop"]
          /\ UNCHANGED <<stop_requested, workers>>
     ELSE /\ requests' = [requests EXCEPT ![r].kind = "stop", ![r].pc = "join"]
          /\ stop_requested' = TRUE
          /\ workers' = [workers EXCEPT ![current_run_thread].stopped = TRUE]
  /\ UNCHANGED current_run_thread
  /\ UNCHANGED <<runVars, agentVars, classifyVars, repoVars, fnVars>>

\* api_stop, line 163: _current_run_thread.join(timeout=5) on whatever the
\* global holds now; it returns when the worker is dead or the timeout is over
StopJoin(r) ==
  /\ requests[r].kind = "stop"
  /\ requests[r].pc = "join"
  /\ requests' = IF current_run_thread = 0
                  THEN Answer(r, "error")
                  ELSE [requests EXCEPT ![r].pc = "drop"]
  /\ UNCHANGED <<current_run_thread, stop_requested, workers>>
  /\ UNCHANGED <<runVars, agentVars, classifyVars, repoVars, fnVars>>

\* api_stop, lines 164-167: the reference is dropped, the event cleared
StopDrop(r) ==
  /\ requests[r].kind = "stop"
  /\ requests[r].pc = "drop"
  /\ current_run_thread' = 0
  /\ stop_requested' = FALSE
  /\ requests' = Answer(r, "stopped")
  /\ UNCHANGED workers
  /\ UNCHANGED <<runVars, agentVars, classifyVars, repoVars, fnVars>>

\* the worker inside orchestrator.run: one more step is dispatched; _execute
\* never looks at _stop_requested
WorkerStep(w) ==
  /\ IsLive(w)
  /\ workers[w].steps < MaxSteps
  /\ workers' = [workers EXCEPT ![w].steps = @ + 1,
                                ![w].late = @ \/ workers[w].stopped]
  /\ UNCHANGED <<current_run_thread, stop_requested, requests>>
  /\ UNCHANGED <<runVars, agentVars, classifyVars, repoVars, fnVars>>

\* _run_orchestrator_thread, lines 97-106: run() returns, write_summary
WorkerReturns(w) ==
  /\ IsLive(w)
  /\ workers' = [workers EXCEPT ![w].state = "finally", ![w].outcome = "returned"]
  /\ UNCHANGED <<current_run_thread, stop_requested, requests>>
  /\ UNCHANGED <<runVars, agentVars, classifyVars, repoVars, fnVars>>

\* _run_orchestrator_thread, lines 107-114: run() raises, run_end is pushed
WorkerRaises(w) ==
  /\ IsLive(w)
  /\ workers' = [workers EXCEPT ![w].state = "finally", ![w].outcome = "raised",
                                ![w].run_end = @ + 1]
  /\ UNCHANGED <<current_run_thread, stop_requested, requests>>
  /\ UNCHANGED <<runVars, agentVars, classifyVars, repoVars, fnVars>>

\* _run_orchestrator_thread, lines 115-116: finally
WorkerFinally(w) ==
  /\ workers[w].state = "finally"
  /\ workers' = [workers EXCEPT ![w].state = "dead"]
  /\ current_run_thread' = 0
  /\ UNCHANGED <<stop_requested, requests>>
  /\ UNCHANGED <<runVars, agentVars, classifyVars, repoVars, fnVars>>

InitMonitor ==
  /\ AgentIdle
  /\ RunIdle
  /\ ClassifyIdle
  /\ MonitorIdle
  /\ RepoIdle
  /\ FnIdle

NextMonitor ==
  \/ \E r \in RequestIds : RunCheck(r)
  \/ \E r \in RequestIds : RunRejects(r)
  \/ \E r \in RequestIds : RunAssign(r)
  \/ \E r \in RequestIds : RunStart(r)
  \/ \E r \in RequestIds : StopCheck(r)
  \/ \E r \in RequestIds : StopJoin(r)
  \/ \E r \in RequestIds : StopDrop(r)
  \/ \E w \in WorkerIds : WorkerStep(w)
  \/ \E w \in WorkerIds : WorkerReturns(w)
  \/ \E w \in WorkerIds : WorkerRaises(w)
  \/ \E w \in WorkerIds : WorkerFinally(w)

SpecMonitor == InitMonitor /\ [][NextMonitor]_vars

\* ------------------------------------------------------------ properties
Returned == result.status = "returned"

Left == result.status \in {"returned", "raised"}

\* the graph the result names
ResultGraph == graphs[result.action_graph_id]

\* C1: whatever the outcome of a run (returned or raised), once it is over
\* times_executed has grown by exactly 1 over the store, and times_succeeded
\* by 1 exactly when the execution ended in success.
C1_CountersOncePerRun ==
  Left =>
    /\ SumExecuted(graphs) = obs.executedAtStart + 1
    /\ SumSucceeded(graphs) =
         obs.succeededAtStart + (IF Returned /\ result.success THEN 1 ELSE 0)

\* C2: within one run _repair is called at most once and _compile at most
\* twice; a step failure that arrives after a repair ends the run with
\* success=false, whatever its tier, without another repair.
C2_AtMostOneRepair ==
  /\ obs.repairCalls <= 1
  /\ obs.compileCalls <= 2
  /\ (obs.last.kind = "abort_after_repair" =>
        /\ Returned
        /\ ~result.success
        /\ result.repaired
        /\ obs.repairCalls = 1)

C2_Witness ==
  /\ obs.last.kind = "abort_after_repair"
  /\ obs.last.tier = "systemic"
  /\ Returned

C4_WarmSuccessNoModelCall ==
  (Returned /\ result.path = "warm_start" /\ result.success) =>
     /\ obs.modelCalls = 0
     /\ obs.compileCalls = 0

C4_Witness ==
  /\ Returned
  /\ result.path = "warm_start"
  /\ result.success
  /\ result.steps_executed >= 1

\* C5: for every run that returns, steps_executed is at most twice the
\* number of steps of the action graph the result names, runs with a repair
\* included.
C5_AtMostTwiceTheSteps ==
  Returned => result.steps_executed <= 2 * Len(ResultGraph.steps)

\* C6: a run of an n-step graph in which one step failed in the
\* transient_recoverable tier, its retry returned no error and matched the
\* criterion, and every other step succeeded returns success=true with
\* steps_executed = n + 1.
C6_RetryIsCounted ==
  (Returned /\ result.success /\ ~result.repaired
     /\ obs.retries = 1 /\ obs.retryMatched) =>
     result.steps_executed = Len(ResultGraph.steps) + 1

\* C7: every failed step whose result classify_failure maps to
\* transient_recoverable is retried before the run aborts or repairs, at
\* every point of the run, the steps of a repaired graph included.
C7_RecoverableIsRetried ==
  (obs.last.kind \in {"retry", "repair", "abort", "abort_after_repair"}
     /\ obs.last.tier = "transient_recoverable") => obs.last.retried

\* the failure that was handled last falls in the transient_unrecoverable tier
LastUnrecoverable ==
  /\ obs.last.kind \in {"retry", "repair", "abort", "abort_after_repair"}
  /\ obs.last.tier = "transient_unrecoverable"

ContextOnlyFrom(c, g) ==
  /\ \A k \in 1..Len(c.previous_outputs) : c.previous_outputs[k].graph = g
  /\ \A p \in c.cookies : p[2] = g
  /\ \A p \in c.session_tokens : p[2] = g

\* C9: right after a repair the context is a new one with empty
\* previous_outputs, cookies and session_tokens, the loop stands at the
\* lowest-order step of the new graph, and at no later point does the
\* context hold a value obtained under the replaced graph.
C9_FreshContextAfterRepair ==
  /\ (pc = "exec" /\ obs.last.kind = "repaired") =>
        /\ ctx = FreshContext
        /\ i = 0
        /\ action_graph = Len(graphs)
        /\ sorted_steps = graphs[action_graph].steps
        /\ \A k \in 2..Len(sorted_steps) : sorted_steps[1].order <= sorted_steps[k].order
  /\ (pc = "exec" /\ repaired) => ContextOnlyFrom(ctx, action_graph)

C9_Witness ==
  /\ pc = "exec"
  /\ repaired
  /\ Len(ctx.previous_outputs) >= 1
  /\ ctx.cookies # {}

\* C10: after a run that returns repaired=true the store holds a
\* REPAIRED_TO edge.
C10_RepairedToWritten ==
  (Returned /\ result.repaired) => repairedTo # {}

\* the text of the call holds one of the phrases, whatever its case
Mentions(phrases) == \E w \in cf_args.error_log : Lower(w) \in phrases

\* C11: classify_failure returns exactly one tier for every (text, status
\* code), the one of the first rule that matches: status 429/503, then the
\* words timeout / timed out / connection reset in any case (both
\* transient_recoverable), then status 401/403/404, then the words session
\* expired / unauthorized / forbidden (both transient_unrecoverable), else
\* systemic; a recoverable rule wins over an unrecoverable one.
C11_FirstMatchingRule ==
  LET recoverable ==
        \/ cf_args.status_code \in {429, 503}
        \/ Mentions({"timeout", "timed out", "connection reset"})
      unrecoverable ==
        \/ cf_args.status_code \in {401, 403, 404}
        \/ Mentions({"session expired", "unauthorized", "forbidden"})
  IN  cf_ret # "none" =>
        /\ cf_ret \in {"transient_recoverable", "transient_unrecoverable", "systemic"}
        /\ recoverable => cf_ret = "transient_recoverable"
        /\ (~recoverable /\ unrecoverable) => cf_ret = "transient_unrecoverable"
        /\ (~recoverable /\ ~unrecoverable) => cf_ret = "systemic"

C11_Witness ==
  /\ cf_ret = "transient_recoverable"
  /\ cf_args.status_code = 401
  /\ cf_args.error_log = {"x", "TIMEOUT", "forbidden"}

\* C12: under every interleaving of POST /run, POST /stop and worker
\* completion at most one orchestrator run is live, and a POST /run received
\* while a worker is alive is answered with 409.
C12_AtMostOneLiveRun ==
  /\ Cardinality({ w \in WorkerIds : IsLive(w) }) <= 1
  /\ \A r \in RequestIds :
       (requests[r].kind = "run" /\ requests[r].pc = "done" /\ requests[r].aliveAtReceipt)
          => requests[r].response = "conflict"

\* C13: once a stop request was made for a live run, that run dispatches no
\* further step.
C13_NoStepAfterStop == \A w \in WorkerIds : ~workers[w].late

\* C14: a worker that has finished, by return or by exception, has produced
\* exactly one run_end event.
C14_OneRunEndPerRun ==
  \A w \in WorkerIds : workers[w].state = "dead" => workers[w].run_end = 1

\* C15: _compile raises only after all max_critic_iterations iterations have
\* failed, wherever in an iteration the exception arose (conversion of the
\* refined plan included), and then no ActionGraph was saved by it.
C15_RaisesOnlyWhenExhausted ==
  obs.raisedIter # -1 =>
     /\ obs.raisedIter = MaxCriticIterations
     /\ Len(graphs) = obs.graphsAtCompile

\* C16: run() never lets an exception escape: every run that is over has
\* returned an OrchestratorResult with path cold_start, warm_start or repair.
C16_RunNeverRaises ==
  /\ result.status # "raised"
  /\ Returned => result.path \in {"cold_start", "warm_start", "repair"}

\* positions of the run inside _compile
CompilePcs == {"compile", "recon", "critic"}

\* a step of the run that issues a model call
IsModelCall == obs'.modelCalls = obs.modelCalls + 1

C18_ModelCallsBounded ==
  /\ obs.compileCalls <= 2
  /\ iter <= MaxCriticIterations
  /\ pc = "recon" => recon_iter <= ReconMaxIterations
  /\ pc = "critic" => recon_iter + 1 <= ReconMaxIterations
  /\ obs.modelCalls <= obs.compileCalls * MaxCriticIterations * (ReconMaxIterations + 1)

C18_Witness ==
  /\ pc = "critic"
  /\ recon_iter + 1 = ReconMaxIterations
  /\ obs.modelCalls = ReconMaxIterations

\* C19: when several ActionGraphs are linked to the fingerprint hash, the
\* warm start executes the newest of them: no graph that
\* get_action_graph_with_steps can match for the hash was created after the
\* one the run took (graphs are numbered in the order of their creation).
C19_WarmStartTakesNewest ==
  (pc = "exec" /\ ~compiled /\ ~repaired) =>
     \A g \in Fetchable(graphs, fp) : g <= ag

\* ------------------------------------------------ GraphRepository alone
\* The repository over a database of nodes and relationships. Graph and
\* step nodes are numbered in the order of their creation; an ActionGraph
\* id is a fresh uuid4, here the number of the node.

\* graphs that may be saved
MaxGraphs == 2

\* Python values
PyStr(x) == [t |-> "str", s |-> x, n |-> 0, items |-> <<>>]

PyInt(x) == [t |-> "int", s |-> "", n |-> x, items |-> <<>>]

PyBool(b) == [t |-> "bool", s |-> "", n |-> IF b THEN 1 ELSE 0, items |-> <<>>]

PyNone == [t |-> "None", s |-> "", n |-> 0, items |-> <<>>]

PyList(elements) == [t |-> "list", s |-> "", n |-> 0, items |-> elements]

\* a key of a dict with its value
PyItem(key, value) == [t |-> "item", s |-> key, n |-> 0, items |-> <<value>>]

PyDict(members) == [t |-> "dict", s |-> "", n |-> 0, items |-> members]

\* Step.parameters as the generators and the handlers use them
StepParameters ==
  { PyDict(<<>>),
    PyDict(<< PyItem("url", PyStr("/api")),
              PyItem("timeout", PyInt(30)),
              PyItem("json", PyBool(TRUE)),
              PyItem("body", PyNone),
              PyItem("env", PyList(<< PyStr("A"), PyStr("B") >>)),
              PyItem("headers", PyDict(<< PyItem("Authorization", PyStr("Bearer t")) >>)) >>) }

\* the steps of an ActionGraph handed to save_action_graph, in any order
\* and with any order fields
SavedSteps == SeqsUpTo([order : 1..MaxSteps, parameters : StepParameters], MaxSteps)

\* a token of JSON text
Tok(k, s, n) == [k |-> k, s |-> s, n |-> n]

Punct(k) == Tok(k, "", 0)

\* json.dumps
RECURSIVE Dumps(_)
RECURSIVE DumpsJoined(_)
Dumps(v) ==
  CASE v.t = "str" -> << Tok("string", v.s, 0) >>
    [] v.t = "int" -> << Tok("number", "", v.n) >>
    [] v.t = "bool" -> << Punct(IF v.n = 1 THEN "true" ELSE "false") >>
    [] v.t = "None" -> << Punct("null") >>
    [] v.t = "list" -> << Punct("[") >> \o DumpsJoined(v.items) \o << Punct("]") >>
    [] v.t = "dict" -> << Punct("{") >> \o DumpsJoined(v.items) \o << Punct("}") >>
    [] v.t = "item" -> << Tok("string", v.s, 0), Punct(":") >> \o Dumps(v.items[1])

DumpsJoined(values) ==
  IF values = <<>> THEN <<>>
  ELSE IF Len(values) = 1 THEN Dumps(values[1])
  ELSE Dumps(values[1]) \o << Punct(",") >> \o DumpsJoined(Tail(values))

\* json.loads: the value read from the front of the text and the rest
RECURSIVE ParseValue(_)
RECURSIVE ParseElements(_, _)
RECURSIVE ParseMembers(_, _)
ParseValue(toks) ==
  LET h == Head(toks)
  IN  CASE h.k = "string" -> [v |-> PyStr(h.s), rest |-> Tail(toks)]
        [] h.k = "number" -> [v |-> PyInt(h.n), rest |-> Tail(toks)]
        [] h.k = "true" -> [v |-> PyBool(TRUE), rest |-> Tail(toks)]
        [] h.k = "false" -> [v |-> PyBool(FALSE), rest |-> Tail(toks)]
        [] h.k = "null" -> [v |-> PyNone, rest |-> Tail(toks)]
        [] h.k = "[" -> ParseElements(Tail(toks), <<>>)
        [] h.k = "{" -> ParseMembers(Tail(toks), <<>>)

ParseElements(toks, acc) ==
  IF Head(toks).k = "]" THEN [v |-> PyList(acc), rest |-> Tail(toks)]
  ELSE LET from == IF Head(toks).k = "," THEN Tail(toks) ELSE toks
           e == ParseValue(from)
       IN  ParseElements(e.rest, Append(acc, e.v))

ParseMembers(toks, acc) ==
  IF Head(toks).k = "}" THEN [v |-> PyDict(acc), rest |-> Tail(toks)]
  ELSE LET from == IF Head(toks).k = "," THEN Tail(toks) ELSE toks
           e == ParseValue(Tail(Tail(from)))
       IN  ParseMembers(e.rest, Append(acc, PyItem(Head(from).s, e.v)))

Loads(toks) == ParseValue(toks).v

\* WITH ag, s ORDER BY s.order: the step nodes ids in an order the sort
\* can produce (steps of equal order in any order)
OrderedBy(ids, nodes) ==
  { c \in [1..Cardinality(ids) -> ids] :
      /\ \A j, k \in DOMAIN c : j # k => c[j] # c[k]
      /\ \A k \in 1..(Len(c) - 1) : nodes[c[k]].order <= nodes[c[k + 1]].order }

\* UNWIND range(0, size(steps) - 2) AS i ... CREATE (current)-[:NEXT]->(next)
NextPairs_Short(c) == { <<c[k], c[k + 1]>> : k \in 1..(Len(c) - 2) }

NextPairs(c) == { <<c[k], c[k + 1]>> : k \in 1..(Len(c) - 1) }

\* save_action_graph: the databases the transaction can leave
save_action_graph(d, fingerprint_hash, graph) ==
  IF fingerprint_hash \notin d.fingerprints THEN { d }
  ELSE
    LET node == Len(d.graphs) + 1
        n == Len(graph)
        ids == (Len(d.steps) + 1)..(Len(d.steps) + n)
        nodes == d.steps \o
                 [k \in 1..n |-> [ag |-> node, order |-> graph[k].order,
                                  parameters |-> Dumps(graph[k].parameters)]]
        created == [d EXCEPT !.graphs = Append(@, [fp |-> fingerprint_hash,
                                                   saved |-> graph]),
                             !.steps = nodes]
        lowest == { f \in ids : \A f2 \in ids : nodes[f].order <= nodes[f2].order }
    IN  IF n = 0 THEN { created }
        ELSE { [created EXCEPT !.NEXT = @ \cup NextPairs(c),
                               !.STARTS_WITH = @ \cup { <<node, f>> }] :
                 c \in OrderedBy(ids, nodes), f \in lowest }

\* MATCH path = (first)-[:NEXT*0..100]->(s): the paths that start at a node
\* a path uses a relationship at most once
RECURSIVE Trails(_, _, _)
Trails(d, first, used) ==
  { << first >> } \cup
  UNION { { << first >> \o p : p \in Trails(d, e[2], used \cup {e}) } :
            e \in { x \in d.NEXT \ used : x[1] = first } }

PathsFrom(d, first) == Trails(d, first, {})

\* the rows of the three MATCH clauses
MatchedRows(d, fingerprint_hash) ==
  UNION { { [ag |-> e[1], path |-> p] : p \in PathsFrom(d, e[2]) } :
            e \in { x \in d.STARTS_WITH : d.graphs[x[1]].fp = fingerprint_hash } }

\* [step IN steps | properties(step)], parameters through json.loads
StepProps(d, path) ==
  [k \in 1..Len(path) |-> [order |-> d.steps[path[k]].order,
                           parameters |-> Loads(d.steps[path[k]].parameters)]]

\* get_action_graph_with_steps: the values the query can return
get_action_graph_with_steps(d, fingerprint_hash) ==
  LET rows == MatchedRows(d, fingerprint_hash)
      first == { r \in rows : \A r2 \in rows : Len(r2.path) <= Len(r.path) }
  IN  IF rows = {}
      THEN { [NoRecord EXCEPT !.called = TRUE, !.hash = fingerprint_hash] }
      ELSE { [called |-> TRUE, hash |-> fingerprint_hash, found |-> TRUE,
              ag |-> r.ag, steps |-> StepProps(d, r.path)] : r \in first }

\* a fingerprint whose traffic showed no signal, without embedding
PlainFingerprint(h) ==
  [hash |-> h, security_signals |-> <<>>, observation_embedding |-> "None"]

\* MERGE (f:Fingerprint {hash: $hash}) SET f.security_signals = ..., ...
save_fingerprint(d, f) ==
  LET given == [security_signals |-> f.security_signals,
                observation_embedding |-> f.observation_embedding]
  IN  [d EXCEPT !.fingerprints = SaveFingerprint(@, f.hash),
                !.props[f.hash] = given,
                !.created[f.hash] = IF f.hash \in d.fingerprints THEN @ ELSE given]

\* save_fingerprint(h)
RepoSaveFingerprint(h) ==
  /\ db' = save_fingerprint(db, PlainFingerprint(h))
  /\ gg_ret' = NoRecord
  /\ UNCHANGED rsc_call
  /\ UNCHANGED <<runVars, agentVars, classifyVars, monitorVars, fnVars>>

\* save_action_graph(h, graph); the database holds at most one step node
\* more than the longest graph has
RepoSaveActionGraph(h, graph) ==
  /\ Len(db.graphs) < MaxGraphs
  /\ Len(db.steps) + Len(graph) <= MaxSteps + 1
  /\ db' \in save_action_graph(db, h, graph)
  /\ gg_ret' = NoRecord
  /\ UNCHANGED rsc_call
  /\ UNCHANGED <<runVars, agentVars, classifyVars, monitorVars, fnVars>>

\* get_action_graph_with_steps(h)
RepoGetActionGraphWithSteps(h) ==
  /\ gg_ret' \in get_action_graph_with_steps(db, h)
  /\ UNCHANGED <<db, rsc_call>>
  /\ UNCHANGED <<runVars, agentVars, classifyVars, monitorVars, fnVars>>

InitRepo ==
  /\ AgentIdle
  /\ RunIdle
  /\ ClassifyIdle
  /\ MonitorIdle
  /\ RepoIdle
  /\ FnIdle

NextRepo ==
  \/ \E h \in Hashes : RepoSaveFingerprint(h)
  \/ \E h \in Hashes, graph \in SavedSteps : RepoSaveActionGraph(h, graph)
  \/ \E h \in Hashes : RepoGetActionGraphWithSteps(h)

SpecRepo == InitRepo /\ [][NextRepo]_vars

\* the graphs linked to a hash by TRIGGERS, the step nodes of a graph
GraphsOf(h) == { a \in 1..Len(db.graphs) : db.graphs[a].fp = h }

StepsOf(a) == { x \in 1..Len(db.steps) : db.steps[x].ag = a }

DistinctOrders(steps) ==
  \A j, k \in 1..Len(steps) : j # k => steps[j].order # steps[k].order

StepNodes(d) == { x \in 1..Len(d.steps) : d.steps[x].ag # 0 }

\* (ag:ActionGraph {id: $ag_id})-[:HAS_STEP]->(s:Step {order: $order})
StepsWithOrder(d, a, order) ==
  { x \in StepNodes(d) : d.steps[x].ag = a /\ d.steps[x].order = order }

\* lines 321-341: the NEXT edges into and out of the failed step are
\* deleted, then the step with every relationship it has
DetachDelete(d, failed) ==
  [d EXCEPT !.NEXT = { e \in @ : e[1] \notin failed /\ e[2] \notin failed },
            !.STARTS_WITH = { e \in @ : e[2] \notin failed },
            !.REPAIRED_TO = { e \in @ : e.from \notin failed /\ e.to \notin failed },
            !.steps = [x \in DOMAIN @ |-> IF x \in failed THEN [@[x] EXCEPT !.ag = 0]
                                          ELSE @[x]]]

\* lines 343-368: the new Step nodes with their HAS_STEP edge
CreateSteps(d, a, new_steps) ==
  [d EXCEPT !.steps = @ \o [k \in 1..Len(new_steps) |->
                              [ag |-> a, order |-> new_steps[k].order,
                               parameters |-> Dumps(new_steps[k].parameters)]]]

\* lines 375-388: MATCH (before:Step)-[:NEXT]->(old:Step {order: $before_order})
\* WHERE NOT EXISTS {(old)-[:NEXT]->(:Step)}
\* MATCH (first:Step {order: $first_new_order}) CREATE (before)-[:NEXT]->(first)
LinkBefore(d, before_order, first_new_order) ==
  [d EXCEPT !.NEXT = @ \cup
     { <<e[1], first>> :
         e \in { x \in d.NEXT : /\ d.steps[x[2]].order = before_order
                                /\ ~\E y \in d.NEXT : y[1] = x[2] },
         first \in { x \in StepNodes(d) : d.steps[x].order = first_new_order } }]

\* lines 390-402: MATCH (after:Step {order: $after_order})
\* MATCH (last:Step {order: $last_new_order}) CREATE (last)-[:NEXT]->(after)
LinkAfter(d, after_order, last_new_order) ==
  [d EXCEPT !.NEXT = @ \cup
     { <<last, after>> :
         last \in { x \in StepNodes(d) : d.steps[x].order = last_new_order },
         after \in { x \in StepNodes(d) : d.steps[x].order = after_order } }]

\* lines 404-420: the REPAIRED_TO edge inside the graph
LinkRepairedTo(d, a, before_order, first_new_order, failed_order) ==
  [d EXCEPT !.REPAIRED_TO = @ \cup
     { [from |-> before, to |-> new_step, reason |-> "Systemic repair",
        repaired_order |-> failed_order, timestamp |-> TRUE] :
         before \in StepsWithOrder(d, a, before_order),
         new_step \in StepsWithOrder(d, a, first_new_order) }]

\* repair_step_chain(action_graph_id, failed_step_order, new_steps)
repair_step_chain(d, a, failed_step_order, new_steps) ==
  IF a \notin 1..Len(d.graphs) THEN d
  ELSE
    LET deleted == DetachDelete(d, StepsWithOrder(d, a, failed_step_order))
        created == CreateSteps(deleted, a, new_steps)
    IN  IF new_steps = <<>> THEN created
        ELSE LET first_new_order == new_steps[1].order
                 last_new_order == new_steps[Len(new_steps)].order
             IN  LinkRepairedTo(
                   LinkAfter(
                     LinkBefore(created, failed_step_order - 1, first_new_order),
                     failed_step_order + 1, last_new_order),
                   a, failed_step_order - 1, first_new_order, failed_step_order)

\* the nodes of graph a from STARTS_WITH along NEXT, when they form one chain
\* that holds every step of the graph; <<>> otherwise
ChainOf(d, a) ==
  LET mine == { x \in StepNodes(d) : d.steps[x].ag = a }
      whole == { p \in UNION { PathsFrom(d, e[2]) : e \in { x \in d.STARTS_WITH : x[1] = a } } :
                   /\ Len(p) = Cardinality(mine)
                   /\ { p[k] : k \in 1..Len(p) } = mine }
  IN  IF Cardinality(whole) = 1
         /\ Cardinality({ x \in d.STARTS_WITH : x[1] = a }) = 1
         /\ Cardinality({ e \in d.NEXT : e[1] \in mine \/ e[2] \in mine }) = Cardinality(mine) - 1
      THEN CHOOSE p \in whole : TRUE
      ELSE <<>>

\* replacement steps a repair produces ("already ordered")
NewSteps ==
  { g \in SavedSteps : \A k \in 1..(Len(g) - 1) : g[k].order < g[k + 1].order }

\* repair_step_chain(a, k, new_steps) is called once, on the only graph of
\* the database, whose steps have pairwise distinct order and form a chain
RepoRepairStepChain(a, k, new_steps) ==
  /\ ~rsc_call.called
  /\ Len(db.graphs) = 1
  /\ a = 1
  /\ DistinctOrders(db.graphs[a].saved)
  /\ ChainOf(db, a) # <<>>
  /\ Len(db.steps) + Len(new_steps) <= MaxSteps + 2
  /\ rsc_call' = [called |-> TRUE, ag |-> a, failed_step_order |-> k,
                  new_steps |-> new_steps, chain |-> ChainOf(db, a)]
  /\ db' = repair_step_chain(db, a, k, new_steps)
  /\ gg_ret' = NoRecord
  /\ UNCHANGED <<runVars, agentVars, classifyVars, monitorVars, fnVars>>

NextRepair ==
  \/ NextRepo
  \/ \E a \in 1..MaxGraphs, k \in 1..MaxSteps, new_steps \in NewSteps :
       RepoRepairStepChain(a, k, new_steps)

SpecRepair == InitRepo /\ [][NextRepair]_vars

\* C21: after repair_step_chain(a, k, new_steps) with at least one new step
\* on a graph whose steps formed a NEXT chain holding a step of order k, the
\* failed step no longer exists, and STARTS_WITH then NEXT* is one chain:
\* the steps before k, the new steps in their order, the steps after k, and
\* nothing else; when k had a predecessor, a REPAIRED_TO edge with reason and
\* timestamp goes from it to the first new step.
C21_RepairSplicesChain ==
  LET a == rsc_call.ag
      chain == rsc_call.chain
      n == Len(rsc_call.new_steps)
      at == { k \in 1..Len(chain) : db.steps[chain[k]].order = rsc_call.failed_step_order }
      \* the nodes the repair created, numbered in the order of new_steps
      newNodes == { x \in StepNodes(db) :
                      db.steps[x].ag = a /\ \A k \in 1..Len(chain) : chain[k] # x }
      firstNew == CHOOSE x \in newNodes : \A y \in newNodes : x <= y
  IN  (rsc_call.called /\ n >= 1 /\ at # {}) =>
        LET pos == CHOOSE k \in at : TRUE
            expected == SubSeq(chain, 1, pos - 1)
                          \o [k \in 1..n |-> firstNew + k - 1]
                          \o SubSeq(chain, pos + 1, Len(chain))
        IN  /\ chain[pos] \notin StepNodes(db)
            /\ ChainOf(db, a) = expected
            /\ pos > 1 =>
                 \E e \in db.REPAIRED_TO :
                   /\ e.from = chain[pos - 1]
                   /\ e.to = firstNew
                   /\ e.reason # ""
                   /\ e.timestamp

\* ------------------------------------------- Fingerprint.compute_hash
\* A string is the sequence of its characters; "|" is the separator
\* compute_hash writes between the fields, "a" any other character.
MaxFieldLen == 1

FieldTexts == SeqsUpTo({"a", "|"}, MaxFieldLen)

Fingerprints ==
  [tech_stack : FieldTexts, auth_model : FieldTexts, endpoint_pattern : FieldTexts,
   security_signals : { <<>>, << "CORS enabled" >> }]

\* f"{self.tech_stack}|{self.auth_model}|{self.endpoint_pattern}"
Normalized(f) == f.tech_stack \o << "|" >> \o f.auth_model \o << "|" >> \o f.endpoint_pattern

\* hashlib.sha256(...).hexdigest(): injective on the hashed string
Sha256(text) == [sha256 |-> text]

compute_hash(f) == Sha256(Normalized(f))

\* two fingerprints are built
InitHash ==
  /\ AgentIdle
  /\ RunIdle
  /\ ClassifyIdle
  /\ MonitorIdle
  /\ RepoIdle
  /\ fn_args \in Fingerprints \X Fingerprints
  /\ fn_ret = NoReturn

\* ensure_hash on both
HashCall ==
  /\ ~fn_ret.done
  /\ fn_ret' = [done |-> TRUE, value |-> << compute_hash(fn_args[1]), compute_hash(fn_args[2]) >>]
  /\ UNCHANGED <<fn_args, runVars, agentVars, classifyVars, monitorVars, repoVars>>

NextHash == HashCall

SpecHash == InitHash /\ [][NextHash]_vars

SameIdentity(f, g) ==
  /\ f.tech_stack = g.tech_stack
  /\ f.auth_model = g.auth_model
  /\ f.endpoint_pattern = g.endpoint_pattern

\* C22: two fingerprints have equal hash if and only if they agree on
\* tech_stack, auth_model and endpoint_pattern, whatever the field values
\* (the separator included) and whatever their security_signals.
C22_HashIsIdentity ==
  fn_ret.done =>
    ((fn_ret.value[1] = fn_ret.value[2]) <=> SameIdentity(fn_args[1], fn_args[2]))

\* ------------------------------------------- save_fingerprint, every run
\* fingerprints of one target as successive captures yield them: the signals
\* come from the traffic, the embedding from whoever attached one
ObservedFingerprints ==
  [hash : Hashes,
   security_signals : { <<>>, << "CORS enabled" >> },
   observation_embedding : { "None", "vector" }]

\* run(): self.graph_repo.save_fingerprint(fingerprint)
RepoSaveObserved(f) ==
  /\ db' = save_fingerprint(db, f)
  /\ gg_ret' = NoRecord
  /\ UNCHANGED rsc_call
  /\ UNCHANGED <<runVars, agentVars, classifyVars, monitorVars, fnVars>>

NextFingerprint ==
  \/ NextRepo
  \/ \E f \in ObservedFingerprints : RepoSaveObserved(f)

SpecFingerprint == InitRepo /\ [][NextFingerprint]_vars

\* C23: a stored Fingerprint is immutable: whatever save_fingerprint calls
\* follow the first one for a hash, the node of the hash keeps the
\* security_signals and observation_embedding it was created with.
C23_FingerprintImmutable ==
  \A h \in db.fingerprints : db.props[h] = db.created[h]

\* the outputs are those of the steps dispatched so far, one each, of the
\* graph under execution, in ascending order
OutputsFollowSteps ==
  /\ Len(ctx.previous_outputs) = i
  /\ \A k \in 1..i :
       /\ ctx.previous_outputs[k].graph = action_graph
       /\ ctx.previous_outputs[k].order = sorted_steps[k].order
  /\ \A k \in 1..(Len(sorted_steps) - 1) : sorted_steps[k].order <= sorted_steps[k + 1].order

\* C24: at every dispatch previous_outputs holds exactly the stdout of the
\* steps of the current graph that completed successfully so far, in
\* execution order, and nothing that a failed attempt returned: an output
\* appended after a retry comes from a result that is not a failed one
\* (empty stderr, criteria matched when the step has some).
C24_OutputsOfSuccessfulSteps ==
  pc = "exec" =>
    /\ OutputsFollowSteps
    /\ obs.last.kind = "retry" => (sorted_steps[i].success_criteria => obs.retryMatched)

\* the loop of _execute moves past a step
Advances == pc = "exec" /\ pc' = "exec" /\ i' = i + 1

\* C25: one rule decides between advancing and failure handling for every
\* handler result, the result of a retry included: whenever the loop moves
\* past a step, the result whose stdout it appended has empty stderr and,
\* when the step has success_criteria, matched them.
C25_OneFailureRule ==
  [][ Advances =>
        LET step == sorted_steps[i + 1]
            out == ctx'.previous_outputs[Len(ctx'.previous_outputs)]
        IN  \E r \in HandlerResults :
              /\ ~StepFailed(step, r)
              /\ r.stdout = out.text
              /\ out.attempt = "retry" => r.success_criteria_matched = obs'.retryMatched ]_vars

\* C26: whenever the loop moves past a step, one Finding was created and
\* persisted on the executing graph if the step is an OBSERVE step with
\* success_criteria and the result it completed with matched them, and none
\* otherwise.
C26_FindingPerMatchedObserve ==
  [][ Advances =>
        LET step == sorted_steps[i + 1]
            out == ctx'.previous_outputs[Len(ctx'.previous_outputs)]
            matched == IF out.attempt = "retry" THEN obs'.retryMatched
                       ELSE step.success_criteria
            created == IF step.phase = "OBSERVE" /\ step.success_criteria /\ matched
                       THEN 1 ELSE 0
        IN  /\ findings' = findings + created
            /\ graphs'[action_graph].findings = graphs[action_graph].findings + created ]_vars

\* ------------------------------------------- _interpolate_params
\* A string that may hold templates is the sequence of its segments: plain
\* text, a token {{previous_outputs[N]}}, or text that resembles a token
\* without matching _INTERPOLATION_RE.
MaxOutputs == 2

Lit(x) == [t |-> "lit", s |-> x, n |-> 0, items |-> <<>>]

Token(N) == [t |-> "token", s |-> "", n |-> N, items |-> <<>>]

PyText(segments) == [t |-> "str", s |-> "", n |-> 0, items |-> segments]

TemplateSegments ==
  { Lit("a"), Lit("{{previous_outputs[x]}}") }
    \cup { Token(N) : N \in (0 - MaxOutputs - 1)..(MaxOutputs + 1) }

TemplateStrings == { PyText(g) : g \in SeqsUpTo(TemplateSegments, 2) }

ShortStrings == { PyText(<< g >>) : g \in TemplateSegments }

\* the values of step.parameters: string leaves, other leaves, a list and a
\* map that hold a string
TemplateValues ==
  TemplateStrings
    \cup { PyInt(30), PyNone, PyBool(TRUE) }
    \cup { PyList(<< v, PyInt(30) >>) : v \in ShortStrings }
    \cup { PyDict(<< PyItem("Authorization", PyList(<< v >>)) >>) : v \in ShortStrings }

TemplateParameters ==
  { PyDict(<< PyItem("body", v), PyItem("timeout", PyInt(30)) >>) : v \in TemplateValues }

\* context.previous_outputs
OutputLists == SeqsUpTo({"o1", "o2"}, MaxOutputs)

\* context.previous_outputs[idx] with Python's indexing; ok is FALSE on IndexError
PyIndex_OneBased(list, idx) ==
  IF idx >= 1 /\ idx <= Len(list) THEN [ok |-> TRUE, value |-> list[idx]]
  ELSE IF idx < 0 /\ 0 - idx <= Len(list) THEN [ok |-> TRUE, value |-> list[Len(list) + idx + 1]]
  ELSE [ok |-> FALSE, value |-> ""]

PyIndex(list, idx) ==
  IF idx >= 0 /\ idx < Len(list) THEN [ok |-> TRUE, value |-> list[idx + 1]]
  ELSE IF idx < 0 /\ 0 - idx <= Len(list) THEN [ok |-> TRUE, value |-> list[Len(list) + idx + 1]]
  ELSE [ok |-> FALSE, value |-> ""]

\* replacer(match): the output, or match.group(0) on IndexError
replacer(segment, previous_outputs) ==
  IF segment.t # "token" THEN segment
  ELSE LET found == PyIndex(previous_outputs, segment.n)
       IN  IF found.ok THEN Lit(found.value) ELSE segment

\* interpolate_value(value)
RECURSIVE interpolate_value(_, _)
interpolate_value(value, previous_outputs) ==
  LET inner == value.items
  IN  CASE value.t = "str" ->
             [value EXCEPT !.items = [k \in 1..Len(inner) |-> replacer(inner[k], previous_outputs)]]
        [] value.t = "dict" ->
             [value EXCEPT !.items =
                [k \in 1..Len(inner) |->
                   PyItem(inner[k].s, interpolate_value(inner[k].items[1], previous_outputs))]]
        [] value.t = "list" ->
             [value EXCEPT !.items =
                [k \in 1..Len(inner) |-> interpolate_value(inner[k], previous_outputs)]]
        [] OTHER -> value

\* new_params = {k: interpolate_value(v) for k, v in step.parameters.items()}
interpolate_params(parameters, previous_outputs) ==
  PyDict([k \in 1..Len(parameters.items) |->
            PyItem(parameters.items[k].s,
                   interpolate_value(parameters.items[k].items[1], previous_outputs))])

\* a step and a context are at hand
InitInterpolate ==
  /\ AgentIdle
  /\ RunIdle
  /\ ClassifyIdle
  /\ MonitorIdle
  /\ RepoIdle
  /\ fn_args \in [parameters : TemplateParameters, previous_outputs : OutputLists]
  /\ fn_ret = NoReturn

\* _interpolate_params(step, context) returns the copy; the step and the
\* context are read only
InterpolateCall ==
  /\ ~fn_ret.done
  /\ fn_ret' = [done |-> TRUE,
                value |-> interpolate_params(fn_args.parameters, fn_args.previous_outputs)]
  /\ UNCHANGED <<fn_args, runVars, agentVars, classifyVars, monitorVars, repoVars>>

NextInterpolate == InterpolateCall

SpecInterpolate == InitInterpolate /\ [][NextInterpolate]_vars

\* res is orig with every token in a string leaf replaced by the output it
\* names, tokens out of range kept, everything else equal
RECURSIVE Interpolated(_, _, _)
Interpolated(orig, res, outs) ==
  LET len == Len(outs)
  IN  CASE orig.t = "token" ->
             IF orig.n >= 0 /\ orig.n < len THEN res = Lit(outs[orig.n + 1])
             ELSE IF orig.n < 0 /\ orig.n >= 0 - len THEN res = Lit(outs[len + orig.n + 1])
             ELSE res = orig
        [] orig.t \in {"str", "dict", "list", "item"} ->
             /\ res.t = orig.t
             /\ res.s = orig.s
             /\ Len(res.items) = Len(orig.items)
             /\ \A k \in 1..Len(orig.items) : Interpolated(orig.items[k], res.items[k], outs)
        [] OTHER -> res = orig

\* C27: _interpolate_params replaces every {{previous_outputs[N]}} token in
\* the string leaves by previous_outputs[N], negative N counting from the
\* end, leaves the token when N is out of range on either side, recurses
\* through maps and lists and returns every other leaf unchanged.
C27_InterpolationReplacesTokens ==
  fn_ret.done => Interpolated(fn_args.parameters, fn_ret.value, fn_args.previous_outputs)

C27_Witness ==
  /\ fn_ret.done
  /\ Len(fn_args.previous_outputs) = MaxOutputs
  /\ fn_args.previous_outputs[1] # fn_args.previous_outputs[MaxOutputs]
  /\ fn_args.parameters.items[1].items[1] =
       PyDict(<< PyItem("Authorization", PyList(<< PyText(<< Token(-1) >>) >>)) >>)
  /\ fn_ret.value.items[1].items[1] =
       PyDict(<< PyItem("Authorization",
                        PyList(<< PyText(<< Lit(fn_args.previous_outputs[MaxOutputs]) >>) >>)) >>)

\* -------------------------------- ProgrammaticAgent.__call__: the tool loop
MaxBlocks == 2

\* the names registered in TOOL_HANDLERS, one standing for the four
TOOL_HANDLERS == {"response_inspect"}

\* a content block of a response or of a message
Block(type, id, name, input, content) ==
  [type |-> type, id |-> id, name |-> name, input |-> input, content |-> content]

\* what the model can put in one block: text, a call of a registered tool
\* with arguments the handler accepts, with a mitm_file that does not exist,
\* or with a raw string for input, and a call of a name that is not registered
BlockShapes ==
  { Block("text", 0, "", "", "") }
    \cup { Block("tool_use", 0, "response_inspect", input, "")
             : input \in {"dict", "dict_missing_file", "raw"} }
    \cup { Block("tool_use", 0, "exploit", "dict", "") }

\* response.content of the call made in one iteration; block ids are unique
Contents(iteration) ==
  { [k \in 1..Len(shape) |-> [shape[k] EXCEPT !.id = (iteration - 1) * (MaxBlocks + 1) + k]]
      : shape \in SeqsUpTo(BlockShapes, MaxBlocks) \ {<<>>} }

\* _sanitize_content: a tool_use block whose input is not a dict gets one
sanitize_content(content) ==
  [k \in 1..Len(content) |->
     IF content[k].type = "tool_use" /\ content[k].input = "raw"
     THEN [content[k] EXCEPT !.input = "dict_command"]
     ELSE content[k]]

\* handler(**inp) / handler(inp): _read_flows opens mitm_file
HandlerRaises(input) == input # "dict"

\* the for loop over response.content, from block k on; raised names the
\* exception that left the loop
RECURSIVE RunTools(_, _, _, _)
RunTools(content, k, inp, tool_results) ==
  IF k > Len(content)
  THEN [raised |-> "", inp |-> inp, tool_results |-> tool_results]
  ELSE LET block == content[k]
       IN  IF block.type # "tool_use" THEN RunTools(content, k + 1, inp, tool_results)
           ELSE IF block.name \in TOOL_HANDLERS
           THEN IF HandlerRaises(block.input)
                THEN [raised |-> "FileNotFoundError", inp |-> block.input,
                      tool_results |-> tool_results]
                ELSE RunTools(content, k + 1, block.input,
                              Append(tool_results,
                                     Block("tool_result", block.id, "", "", "json")))
           ELSE IF inp = "unbound"
                THEN [raised |-> "UnboundLocalError", inp |-> inp,
                      tool_results |-> tool_results]
                ELSE RunTools(content, k + 1, inp,
                              Append(tool_results,
                                     Block("tool_result", block.id, "", "", "Unknown tool")))

Message(role, content) == [role |-> role, content |-> content]

InAgentLoop == recon_call.pc = "loop" /\ ReconLoopRuns(recon_call.iteration)

\* __call__ up to the loop
AgentCall ==
  /\ recon_call.pc = "idle"
  /\ recon_call' = [recon_call EXCEPT
                      !.pc = "loop",
                      !.messages = << Message("user", << Block("text", 0, "", "", "prompt") >>) >>]
  /\ UNCHANGED <<runVars, classifyVars, monitorVars, repoVars, fnVars>>

\* an iteration whose response has stop_reason "tool_use"
AgentToolUse(content) ==
  /\ InAgentLoop
  /\ LET ran == RunTools(content, 1, recon_call.inp, <<>>)
         assistant == Append(recon_call.messages, Message("assistant", sanitize_content(content)))
     IN  recon_call' =
           [pc |-> IF ran.raised = "" THEN "loop" ELSE "raised",
            iteration |-> recon_call.iteration + 1,
            messages |-> IF ran.raised = "" /\ ran.tool_results # <<>>
                         THEN Append(assistant, Message("user", ran.tool_results))
                         ELSE assistant,
            response |-> [stop_reason |-> "tool_use", content |-> content],
            inp |-> ran.inp,
            raised |-> ran.raised]
  /\ UNCHANGED <<runVars, classifyVars, monitorVars, repoVars, fnVars>>

\* an iteration whose response has stop_reason "pause_turn"
AgentPauseTurn(content) ==
  /\ InAgentLoop
  /\ recon_call' = [recon_call EXCEPT
                      !.iteration = @ + 1,
                      !.messages = Append(@, Message("assistant", sanitize_content(content))),
                      !.response = [stop_reason |-> "pause_turn", content |-> content]]
  /\ UNCHANGED <<runVars, classifyVars, monitorVars, repoVars, fnVars>>

\* an iteration whose response has stop_reason "end_turn", or any other
AgentEndTurn(content, stop_reason, parsed) ==
  /\ InAgentLoop
  /\ recon_call' = [recon_call EXCEPT
                      !.iteration = @ + 1,
                      !.response = [stop_reason |-> stop_reason, content |-> content],
                      !.pc = IF stop_reason = "end_turn" /\ parsed THEN "returned" ELSE "raised",
                      !.raised = IF stop_reason = "end_turn" /\ parsed THEN "" ELSE "RuntimeError"]
  /\ UNCHANGED <<runVars, classifyVars, monitorVars, repoVars, fnVars>>

\* the loop ran max_iterations times
AgentExceeded ==
  /\ recon_call.pc = "loop"
  /\ ~ReconLoopRuns(recon_call.iteration)
  /\ recon_call' = [recon_call EXCEPT !.pc = "raised", !.raised = "RuntimeError"]
  /\ UNCHANGED <<runVars, classifyVars, monitorVars, repoVars, fnVars>>

InitAgent ==
  /\ RunIdle
  /\ UnitsIdle

NextAgent ==
  \/ AgentCall
  \/ \E content \in Contents(recon_call.iteration + 1) :
       \/ AgentToolUse(content)
       \/ AgentPauseTurn(content)
       \/ \E stop_reason \in {"end_turn", "max_tokens"}, parsed \in BOOLEAN :
            AgentEndTurn(content, stop_reason, parsed)
  \/ AgentExceeded

SpecAgent == InitAgent /\ [][NextAgent]_vars

\* the tool calls of the last response, when the loop ran them
ToolCalls ==
  IF recon_call.response.stop_reason # "tool_use" THEN {}
  ELSE { k \in 1..Len(recon_call.response.content) :
           recon_call.response.content[k].type = "tool_use" }

\* those whose execution fails
FailedToolCalls ==
  { k \in ToolCalls :
      \/ recon_call.response.content[k].name \notin TOOL_HANDLERS
      \/ HandlerRaises(recon_call.response.content[k].input) }

\* C28: a tool call of the recon loop that fails (the handler raises, or the
\* name is not registered) does not raise out of the agent call: the loop
\* goes on and the error is the content of the tool_result with that id.
C28_ToolErrorsReturnedToModel ==
  \A k \in FailedToolCalls :
    /\ recon_call.pc = "loop"
    /\ LET last == recon_call.messages[Len(recon_call.messages)]
       IN  /\ last.role = "user"
           /\ \E r \in 1..Len(last.content) :
                /\ last.content[r].type = "tool_result"
                /\ last.content[r].id = recon_call.response.content[k].id
                /\ last.content[r].content # "json"

\* the one case in which the code does so: an unregistered name after a
\* successful call of a registered tool
UnknownToolAnswered ==
  /\ recon_call.pc = "loop"
  /\ \E k \in FailedToolCalls :
       \E r \in 1..Len(recon_call.messages[Len(recon_call.messages)].content) :
         /\ recon_call.messages[Len(recon_call.messages)].content[r].id =
              recon_call.response.content[k].id
         /\ recon_call.messages[Len(recon_call.messages)].content[r].content = "Unknown tool"

\* ------------------------------- RegexMatchHandler, ShellCommandHandler
\* what execute() hands back: a StepResult, or the exception that left it;
\* status_code 0 stands for None
Result(stdout, stderr, status_code, matched) ==
  [raised |-> "", stdout |-> stdout, stderr |-> stderr, status_code |-> status_code,
   success_criteria_matched |-> matched]

Escaped(exception) ==
  [raised |-> exception, stdout |-> "", stderr |-> "", status_code |-> 0,
   success_criteria_matched |-> FALSE]

\* step.parameters["source"]: "last" or an index into previous_outputs
Sources == {[last |-> TRUE, index |-> 0]}
             \cup { [last |-> FALSE, index |-> n] : n \in (0 - MaxOutputs - 1)..(MaxOutputs + 1) }

\* a pattern without groups that matches the output of that text, or none
Patterns == {"o1", "o2", "zz"}

\* how the subprocess of a shell step ends
Processes == {"exit 0", "exit 42", "timeout", "not utf-8"}

RegexSteps ==
  [type : {"regex_match"}, source : Sources, pattern : Patterns, capture_group : {0, 1},
   process : {"exit 0"}, success_criteria : {FALSE}]

ShellSteps ==
  [type : {"shell_command"}, source : {[last |-> TRUE, index |-> 0]}, pattern : {"zz"},
   capture_group : {0}, process : Processes, success_criteria : BOOLEAN]

\* RegexMatchHandler.execute
RegexMatchExecute(step, previous_outputs) ==
  IF previous_outputs = <<>> THEN Result("", "No previous outputs available", 0, FALSE)
  ELSE LET found == IF step.source.last THEN PyIndex(previous_outputs, -1)
                    ELSE PyIndex(previous_outputs, step.source.index)
       IN  IF ~found.ok THEN Escaped("IndexError")
           ELSE IF step.pattern # found.value THEN Result("", "", 0, FALSE)
           ELSE IF step.capture_group # 0 THEN Escaped("IndexError")
           ELSE Result(step.pattern, "", 0, TRUE)

\* ShellCommandHandler.execute; the command prints its success criteria
ShellCommandExecute(step) ==
  CASE step.process = "timeout" -> Result("", "Timeout after", -1, FALSE)
    [] step.process = "not utf-8" -> Escaped("UnicodeDecodeError")
    [] step.process = "exit 0" -> Result("out", "", 0, step.success_criteria)
    [] OTHER -> Result("out", "", 42, step.success_criteria)

InitHandlers ==
  /\ AgentIdle
  /\ RunIdle
  /\ ClassifyIdle
  /\ MonitorIdle
  /\ RepoIdle
  /\ fn_args \in [step : RegexSteps \cup ShellSteps, previous_outputs : OutputLists]
  /\ fn_ret = NoReturn

RegexMatchCall ==
  /\ ~fn_ret.done
  /\ fn_args.step.type = "regex_match"
  /\ fn_ret' = [done |-> TRUE, value |-> RegexMatchExecute(fn_args.step, fn_args.previous_outputs)]
  /\ UNCHANGED <<fn_args, runVars, agentVars, classifyVars, monitorVars, repoVars>>

ShellCommandCall ==
  /\ ~fn_ret.done
  /\ fn_args.step.type = "shell_command"
  /\ fn_ret' = [done |-> TRUE, value |-> ShellCommandExecute(fn_args.step)]
  /\ UNCHANGED <<fn_args, runVars, agentVars, classifyVars, monitorVars, repoVars>>

NextHandlers == RegexMatchCall \/ ShellCommandCall

SpecHandlers == InitHandlers /\ [][NextHandlers]_vars

\* the regex step names an output that does not exist
SourceMissing ==
  /\ fn_args.step.type = "regex_match"
  /\ \/ fn_args.previous_outputs = <<>>
     \/ /\ ~fn_args.step.source.last
        /\ \/ fn_args.step.source.index >= Len(fn_args.previous_outputs)
           \/ fn_args.step.source.index < 0 - Len(fn_args.previous_outputs)

\* C29: no handler raises, whatever the step and the context: a regex_match
\* whose source is outside previous_outputs, or with no previous outputs,
\* returns a StepResult with stderr set, and a shell timeout returns stderr
\* with "Timeout" and status -1.
C29_HandlersNeverRaise ==
  fn_ret.done =>
    /\ fn_ret.value.raised = ""
    /\ SourceMissing => fn_ret.value.stderr # ""
    /\ (fn_args.step.type = "shell_command" /\ fn_args.step.process = "timeout") =>
         fn_ret.value.stderr = "Timeout after" /\ fn_ret.value.status_code = -1

\* ------------------------------------------- attack_plan_to_action_graph
MaxOpportunities == 2

\* AttackPlan.attack_plan as the critic may return it
AttackPlans == SeqsUpTo(Opportunities, MaxOpportunities)

InitConvert ==
  /\ AgentIdle
  /\ RunIdle
  /\ ClassifyIdle
  /\ MonitorIdle
  /\ RepoIdle
  /\ fn_args \in [plan : AttackPlans, bearer : BOOLEAN]
  /\ fn_ret = NoReturn

\* attack_plan_to_action_graph(plan): the graph, unless the generator raises
ConvertCall ==
  /\ ~fn_ret.done
  /\ fn_ret' = [done |-> TRUE,
                value |-> IF GeneratorRaises(fn_args.plan, fn_args.bearer)
                          THEN [raised |-> TRUE, steps |-> <<>>]
                          ELSE [raised |-> FALSE,
                                steps |-> AttackPlanToActionGraph(fn_args.plan)]]
  /\ UNCHANGED <<fn_args, runVars, agentVars, classifyVars, monitorVars, repoVars>>

NextConvert == ConvertCall

SpecConvert == InitConvert /\ [][NextConvert]_vars

MaxExchanges == 2

\* a header that the parsed dict does not hold
Absent == "<absent>"

\* the headers of a parsed request and of a parsed response that the
\* extraction rules read
RequestHeaders == [Authorization : {Absent, "Bearer t", "Basic dXNlcg", "Digest x"},
                   Cookie : {Absent, "sid=1"}]

ResponseHeaders == [XPoweredBy : {Absent, "", "Express"}, Server : {Absent, "nginx"}]

\* what _parse_traffic_log returns: one request and one response per exchange
Transcripts == SeqsUpTo([request : RequestHeaders, response : ResponseHeaders], MaxExchanges)

\* str.startswith / str.split()[0] on the Authorization values
Scheme(auth_val) ==
  CASE auth_val = "Bearer t" -> "Bearer"
    [] auth_val = "Basic dXNlcg" -> "Basic"
    [] auth_val = "Digest x" -> "Digest"
    [] OTHER -> ""

\* Fingerprinter._extract_auth_model
RECURSIVE extract_auth_model(_)
extract_auth_model(reqs) ==
  IF reqs = <<>> THEN "Unknown"
  ELSE LET headers == Head(reqs)
       IN  IF headers.Authorization # Absent
           THEN CASE Scheme(headers.Authorization) = "Bearer" -> "JWT Bearer"
                  [] Scheme(headers.Authorization) = "Basic" -> "Basic Auth"
                  [] Scheme(headers.Authorization) = "" -> "Unknown"
                  [] OTHER -> Scheme(headers.Authorization)
           ELSE IF headers.Cookie # Absent THEN "Cookie-based"
           ELSE extract_auth_model(Tail(reqs))

\* Fingerprinter._extract_tech_stack
RECURSIVE extract_tech_stack(_)
extract_tech_stack(responses) ==
  IF responses = <<>> THEN "Unknown"
  ELSE LET headers == Head(responses)
       IN  IF headers.XPoweredBy # Absent THEN headers.XPoweredBy
           ELSE IF headers.Server # Absent THEN headers.Server
           ELSE extract_tech_stack(Tail(responses))

InitFingerprinter ==
  /\ AgentIdle
  /\ RunIdle
  /\ ClassifyIdle
  /\ MonitorIdle
  /\ RepoIdle
  /\ fn_args \in Transcripts
  /\ fn_ret = NoReturn

\* Fingerprinter.fingerprint on the parsed transcript
FingerprintCall ==
  /\ ~fn_ret.done
  /\ fn_ret' = [done |-> TRUE,
                value |-> [auth_model |->
                             extract_auth_model([k \in 1..Len(fn_args) |-> fn_args[k].request]),
                           tech_stack |->
                             extract_tech_stack([k \in 1..Len(fn_args) |-> fn_args[k].response])]]
  /\ UNCHANGED <<fn_args, runVars, agentVars, classifyVars, monitorVars, repoVars>>

NextFingerprinter == FingerprintCall

SpecFingerprinter == InitFingerprinter /\ [][NextFingerprinter]_vars

AnyRequest(P(_)) == \E k \in 1..Len(fn_args) : P(fn_args[k].request)

HasBearer(r) == r.Authorization # Absent /\ Scheme(r.Authorization) = "Bearer"

HasBasic(r) == r.Authorization # Absent /\ Scheme(r.Authorization) = "Basic"

HasCookie(r) == r.Cookie # Absent

\* C31: auth_model is "JWT Bearer" when any request carries Authorization:
\* Bearer, in whatever order; else "Basic Auth" when any carries
\* Authorization: Basic; else "Cookie-based" when any carries Cookie; else
\* "Unknown".
C31_AuthModelByPrecedence ==
  fn_ret.done =>
    fn_ret.value.auth_model =
      IF AnyRequest(HasBearer) THEN "JWT Bearer"
      ELSE IF AnyRequest(HasBasic) THEN "Basic Auth"
      ELSE IF AnyRequest(HasCookie) THEN "Cookie-based"
      ELSE "Unknown"

\* the responses that carry a non-empty X-Powered-By, and those with a Server
PoweredAt == { k \in 1..Len(fn_args) : fn_args[k].response.XPoweredBy \notin {Absent, ""} }

ServerAt == { k \in 1..Len(fn_args) : fn_args[k].response.Server # Absent }

Least(S) == CHOOSE k \in S : \A j \in S : k <= j

\* C32: tech_stack is the first non-empty X-Powered-By over all responses;
\* the first Server only when no response has one; "Unknown" when neither
\* header occurs.
C32_TechStackPrefersPoweredBy ==
  fn_ret.done =>
    fn_ret.value.tech_stack =
      IF PoweredAt # {} THEN fn_args[Least(PoweredAt)].response.XPoweredBy
      ELSE IF ServerAt # {} THEN fn_args[Least(ServerAt)].response.Server
      ELSE "Unknown"

\* --------------------------- _execute: what a handler is given for a step
\* how the first dispatch of the step ends, as _execute and
\* _handle_step_failure tell the cases apart
DispatchOutcomes == {"passed", "transient_recoverable", "other failure"}

InitDispatch ==
  /\ AgentIdle
  /\ RunIdle
  /\ ClassifyIdle
  /\ MonitorIdle
  /\ RepoIdle
  /\ fn_args \in [parameters : TemplateParameters, previous_outputs : OutputLists]
  /\ fn_ret = NoReturn

\* _execute: interpolated = _interpolate_params(step, ctx);
\* handler.execute(interpolated, ctx)
DispatchStep(outcome) ==
  /\ ~fn_ret.done
  /\ fn_ret' = [done |-> TRUE,
                value |-> [received |-> << interpolate_params(fn_args.parameters,
                                                              fn_args.previous_outputs) >>,
                           outcome |-> outcome]]
  /\ UNCHANGED <<fn_args, runVars, agentVars, classifyVars, monitorVars, repoVars>>

\* _handle_step_failure(step, result, ctx, ...): handler.execute(step, context)
\* with the step _execute took from sorted_steps; a failed step appended
\* nothing to previous_outputs
DispatchRetry ==
  /\ fn_ret.done
  /\ fn_ret.value.outcome = "transient_recoverable"
  /\ Len(fn_ret.value.received) = 1
  /\ fn_ret' = [fn_ret EXCEPT !.value.received = Append(@, fn_args.parameters)]
  /\ UNCHANGED <<fn_args, runVars, agentVars, classifyVars, monitorVars, repoVars>>

NextDispatch ==
  \/ \E outcome \in DispatchOutcomes : DispatchStep(outcome)
  \/ DispatchRetry

SpecDispatch == InitDispatch /\ [][NextDispatch]_vars

\* C33: every dispatch of a step, the retry included, hands the handler the
\* parameters interpolated against the current previous_outputs: no token
\* whose index is in range reaches a handler.
C33_EveryDispatchInterpolated ==
  fn_ret.done =>
    \A k \in 1..Len(fn_ret.value.received) :
      Interpolated(fn_args.parameters, fn_ret.value.received[k], fn_args.previous_outputs)

\* C34: the graph whose counters run() increments and whose id the result
\* reports is the graph _execute was walking, and attaching Findings to,
\* when the run ended, also after a repair replaced the graph.
C34_BookkeepingOnExecutingGraph ==
  Returned => result.action_graph_id = result.executing

\* C35: when the retry of a transient_recoverable failure also reports
\* stderr, the failure counts as systemic whatever the retry's own status
\* code or text, and a repair is attempted (none has happened yet: a failure
\* after a repair never reaches the retry).
C35_FailedRetryIsSystemic ==
  obs.last.retry_tier # "none" =>
    /\ obs.last.kind \in {"repair", "repaired", "repair_failed"}
    /\ obs.repairCalls = 1

C35_Witness ==
  /\ obs.last.retry_tier = "transient_unrecoverable"
  /\ obs.last.kind = "repair"
  /\ pc = "compile"
  /\ mode = "repair"
  /\ ~repaired

\* C36: the tokens spent by earlier runs of the process never make a later
\* run's first model call be refused: a run that is compiling or repairing
\* and has issued no model call yet finds the counter below the budget.
C36_LaterRunHasItsBudget ==
  (pc \in CompilePcs /\ obs.modelCalls = 0) => ~BudgetExhausted(total_tokens)

\* C37: a run that reports success has executed at least one step, whatever
\* the refined plan was, one without opportunities included.
C37_SuccessExecutedAStep ==
  (Returned /\ result.success) => result.steps_executed >= 1

\* C38: _current_run_thread, when not None, designates the worker started
\* last, and a worker that finishes clears the reference only when it still
\* designates that worker, never the reference of a newer run.
C38_ReferenceClearedByItsWorker ==
  [][ /\ current_run_thread # 0 =>
           \A v \in WorkerIds : workers[v].state # "unborn" => v <= current_run_thread
      /\ \A w \in WorkerIds :
           (workers[w].state = "finally" /\ workers'[w].state = "dead"
              /\ current_run_thread # 0)
             => current_run_thread = w ]_vars

\* ------------------------- repair_step_chain in a store of several graphs
\* repair_step_chain(a, k, new_steps) is called once, on any graph of the
\* database
RepoRepairAmongGraphs(a, k, new_steps) ==
  /\ ~rsc_call.called
  /\ a \in 1..Len(db.graphs)
  /\ Len(db.steps) + Len(new_steps) <= MaxSteps + 2
  /\ rsc_call' = [called |-> TRUE, ag |-> a, failed_step_order |-> k,
                  new_steps |-> new_steps, chain |-> <<>>]
  /\ db' = repair_step_chain(db, a, k, new_steps)
  /\ gg_ret' = NoRecord
  /\ UNCHANGED <<runVars, agentVars, classifyVars, monitorVars, fnVars>>

NextRepairFrame ==
  \/ \E h \in Hashes : RepoSaveFingerprint(h)
  \/ \E h \in Hashes, graph \in SavedSteps : RepoSaveActionGraph(h, graph)
  \/ \E a \in 1..MaxGraphs, k \in 1..MaxSteps, new_steps \in NewSteps :
       RepoRepairAmongGraphs(a, k, new_steps)

SpecRepairFrame == InitRepo /\ [][NextRepairFrame]_vars

\* the Step nodes of the graphs other than a
StepsOfOthers(d, a) == { x \in StepNodes(d) : d.steps[x].ag # a }

\* the relationships that touch one of the nodes
EdgesAt(d, nodes) ==
  [NEXT |-> { e \in d.NEXT : e[1] \in nodes \/ e[2] \in nodes },
   STARTS_WITH |-> { e \in d.STARTS_WITH : e[2] \in nodes },
   REPAIRED_TO |-> { e \in d.REPAIRED_TO : e.from \in nodes \/ e.to \in nodes }]

\* C39: repair_step_chain(graph_id, k, new_steps) creates and deletes Step
\* nodes and NEXT/REPAIRED_TO edges only among the steps of the named graph:
\* the steps of every other graph, those with the same order numbers
\* included, and the edges at them are as before.
C39_RepairLeavesOtherGraphs ==
  [][ (~rsc_call.called /\ rsc_call'.called) =>
        LET others == StepsOfOthers(db, rsc_call'.ag)
        IN  /\ StepsOfOthers(db', rsc_call'.ag) = others
            /\ \A x \in others : db'.steps[x] = db.steps[x]
            /\ EdgesAt(db', others) = EdgesAt(db, others) ]_vars

\* a run completes with this step and its metrics update names graph g
CompletesOn(g) ==
  /\ pc # "returned"
  /\ pc' = "returned"
  /\ result'.action_graph_id = g

====
